---- MODULE Spec2Model ----
(***************************************************************************)
(* A model of the per-shard data slice (DbSlice) of the engine: one        *)
(* DbTable (database index 0) with its PrimeTable and ExpireTable, the     *)
(* AutoUpdater handed out by the mutable lookups, lazy expiration, the     *)
(* eviction policy injected into the insert path, the change-callback      *)
(* registry with bucket versions, and the asynchronous slot flush.         *)
(*                                                                         *)
(* Every handler of db_slice.cc is a pure operator over the record SliceOf *)
(* (the fields of the slice), named as in the source; an action applies    *)
(* one whole handler to the current state.                                 *)
(***************************************************************************)
EXTENDS Integers, Sequences, FiniteSets, TLC

(***************************************************************************)
(* Bounds of the model.                                                    *)
(***************************************************************************)
NumKeys == 5          \* keys are 1..NumKeys
NumSmallKeys == 2     \* keys used where the table is never filled
NumFlushKeys == 4     \* keys used while slots are flushed
MaxVal == 2           \* values written by callers are 1..MaxVal
MaxTime == 2          \* the clock runs over 0..MaxTime
MaxVersion == 4       \* data path: no handler takes a version beyond it
MaxFlushVersion == 7  \* the same while slots are flushed
NumPreloaded == 4     \* keys stored before slots are flushed
MaxEvictVersion == 6  \* the same under memory pressure
MaxDeletions == 2     \* Del is not called once deletion_count_ reaches it
NumSlots == 2         \* cluster slots are 0..NumSlots-1
MaxCallbacks == 3     \* length of change_cb_
MaxCbVersion == 6     \* the cap on version_ while callbacks are registered
MaxLockRefs == 1      \* references held per lock mode
NumThreads == 2       \* proactor threads, and shards
NumConns == 2         \* connections that change the cluster config
MaxConfigs == 3       \* ClusterConfig objects created in one run
NumClusterKeys == 3   \* keys of the slices the cluster family moves
MaxBlocked == 2       \* commands blocked on one thread
NumWatchers == 2      \* connections that watch keys

(***************************************************************************)
(* Constants of the program, scaled down: the geometry of the PrimeTable   *)
(* (one segment before any split), sizes in bytes, flags.                  *)
(***************************************************************************)
kRegularBucketCnt == 1
kStashBucketCnt == 1
kBucketWidth == 2
kSegBytes == 4
KeySize == 1
kBytesPerObject == 1
kSoftBudgetLimit == 2
kMaxEvictionPerHeartbeat == 2
kFlushYieldEvery == 1
kMsPerSec == 1000
kMaxExpireDeadlineSec == 1
Unlimited == 1000000  \* stands for SSIZE_MAX, the budget of a slice without a limit

Keys == 1..NumKeys
WatchConns == 1..NumWatchers
SmallKeys == 1..NumSmallKeys
FlushKeys == 1..NumFlushKeys
Vals == 1..MaxVal
Times == 0..MaxTime
Deadlines == 1..MaxTime
Slots == 0..(NumSlots - 1)
kTotalBuckets == kRegularBucketCnt + kStashBucketCnt
Buckets == 0..(kTotalBuckets - 1)
RegularBuckets == 0..(kRegularBucketCnt - 1)
StashBuckets == kRegularBucketCnt..(kTotalBuckets - 1)
kSegCapacity == kTotalBuckets * kBucketWidth

NoExpire == 0

VARIABLES
  prime,            \* PrimeTable: key -> entry
  expire,           \* ExpireTable: key -> absolute deadline, NoExpire if none
  expire_dup,       \* ExpireTable: key -> deadline of a second entry of the key
  bucket_version,   \* version of every bucket of the PrimeTable
  segments,         \* number of segments of the PrimeTable
  version_,         \* DbSlice::version_
  deletion_count_,  \* DbSlice::deletion_count_
  change_cb_,       \* DbSlice::change_cb_: the versions of the registered callbacks
  trans_locks,      \* DbTable::trans_locks: key -> entry present, [shared, exclusive] counts
  memory_budget_,   \* DbSlice::memory_budget_
  bumped_items_,    \* DbSlice::bumped_items_
  caching_mode_,    \* DbSlice::caching_mode_
  expire_allowed_,  \* DbSlice::expire_allowed_
  is_replica,       \* owner_->IsReplica()
  has_journal,      \* owner_->journal() != nullptr
  loading,          \* ServerState::tlocal()->gstate() == GlobalState::LOADING
  now,              \* the clock the contexts take time_now_ms from
  dchecks,          \* TRUE in a build that compiles DCHECKs in
  crashed,          \* a CHECK (or a compiled-in DCHECK) has failed
  notices,          \* the callback invocations of the most recent handler
  updater,          \* the AutoUpdater the caller holds
  touched,          \* an entry was inserted or erased since updater was created
  flush,            \* the flush_slots fiber
  delivered,        \* bucket -> callbacks that got the notice of its latest PreUpdate
  retired,          \* versions of the callbacks that were unregistered
  cluster_enabled,  \* ClusterConfig::IsEnabled()
  slots_stats,      \* DbTable::slots_stats: slot -> [key_count]
  obj_memory_usage, \* DbTable::stats.obj_memory_usage
  memory_usage_by_type, \* DbTable::stats.memory_usage_by_type
  watched_keys,     \* DbTable::watched_keys: key -> the connections that watch it
  watched_dirty,    \* connection -> ExecInfo::watched_dirty
  events_,          \* what the most recent handler added to DbSlice::events_
  journal,          \* the journal entries the most recent handler wrote
  last,             \* what the most recent handler was given and returned
  tl_cluster_config,          \* thread -> the config object the thread points to
  configs,                    \* the ClusterConfig objects created so far
  is_migration_finalization,  \* thread -> ServerState::IsMigrationFinalization()
  set_config_mu,              \* the connection that holds set_config_mu
  conns,                      \* connection -> the frame of its DflyClusterConfig call
  blocked,                    \* thread -> the commands blocked on the thread
  cancelled,                  \* thread -> what CancelBlockingOnThread last cancelled
  outgoing_migration_jobs_,   \* the outgoing migration, NoMigration if none
  shard_keys,                 \* shard -> the keys its slice holds
  dest_keys,                  \* the keys the destination of the migration holds
  shard_log,                  \* shard -> its journal, and what the last config change did
  observed          \* what the cluster commands last reported

vars == <<prime, expire, expire_dup, bucket_version, segments, version_, deletion_count_,
          change_cb_, trans_locks, memory_budget_, bumped_items_, caching_mode_,
          expire_allowed_, is_replica, has_journal, loading, now, dchecks, crashed,
          notices, updater, touched, flush, delivered, retired, cluster_enabled,
          slots_stats, obj_memory_usage, memory_usage_by_type, watched_keys, watched_dirty,
          events_, journal, last,
          tl_cluster_config, configs, is_migration_finalization, set_config_mu, conns,
          blocked, cancelled, outgoing_migration_jobs_, shard_keys, dest_keys, shard_log,
          observed>>

\* The variables of one slice, and those of the cluster family of the process.
slice_vars == <<prime, expire, expire_dup, bucket_version, segments, version_,
                deletion_count_, change_cb_, trans_locks, memory_budget_, bumped_items_,
                caching_mode_, expire_allowed_, is_replica, has_journal, loading, now,
                dchecks, crashed, notices, updater, touched, flush, delivered, retired,
                cluster_enabled, slots_stats, obj_memory_usage, memory_usage_by_type,
                watched_keys, watched_dirty, events_, journal, last>>

cluster_vars == <<tl_cluster_config, configs, is_migration_finalization, set_config_mu,
                  conns, blocked, cancelled, outgoing_migration_jobs_, shard_keys,
                  dest_keys, shard_log, observed>>

Threads == 0..(NumThreads - 1)     \* the proactor threads; each one hosts a shard
Shards == Threads
Conns == 1..NumConns               \* connections that issue DFLYCLUSTER CONFIG
ConfigIds == 1..MaxConfigs         \* ClusterConfig objects; 0 stands for nullptr

NoConfig == [created |-> FALSE, owned |-> {}, migrated |-> {}]

\* slot_migrations_[shard] before StartFlow: a null pointer.
NoFlow == [started |-> FALSE, state_ |-> "C_CONNECTING", todo |-> {}]

NoMigration == [created |-> FALSE, slots_ |-> {},
                slot_migrations_ |-> [s \in Shards |-> NoFlow]]

\* A connection outside DflyClusterConfig.
\* error: the error the last call of the connection replied with.
NoFrame == [pc |-> "idle", new_config |-> 0, is_first_config |-> FALSE, before |-> {},
            cancelled_on |-> {}, assigned |-> {}, error |-> "none"]

\* A shard with a journal on which the last config change flushed and wrote nothing:
\* flushed holds the arguments of the FlushSlots calls, journal the entries written.
NoShardLog == [has_journal |-> TRUE, flushed |-> <<>>, journal |-> <<>>]

\* state: the answer of the last SLOT-MIGRATION-STATUS; locked: the config of the
\* last DflyClusterConfig that took set_config_mu.
NoObserved == [state |-> "none", locked |-> 0]

\* The cluster family of a process that has no config and has run no command.
InitClusterIdle ==
  /\ tl_cluster_config = [t \in Threads |-> 0]
  /\ configs = [id \in ConfigIds |-> NoConfig]
  /\ is_migration_finalization = [t \in Threads |-> FALSE]
  /\ set_config_mu = 0
  /\ conns = [c \in Conns |-> NoFrame]
  /\ blocked = [t \in Threads |-> {}]
  /\ cancelled = [t \in Threads |-> {}]
  /\ outgoing_migration_jobs_ = NoMigration
  /\ shard_keys = [s \in Shards |-> {}]
  /\ dest_keys = {}
  /\ shard_log = [s \in Shards |-> NoShardLog]
  /\ observed = NoObserved

Absent == [present |-> FALSE, val |-> 0, has_expire |-> FALSE, sticky |-> FALSE,
           bucket |-> 0]

NoLock == [present |-> FALSE, shared |-> 0, exclusive |-> 0]

NoUpdater == [action |-> "kDoNothing", key |-> 0, db_size |-> 0, deletion_count |-> 0,
              orig_heap_size |-> 0]

NoFlush == [pc |-> "none", slot_ids |-> {}, next_version |-> 0, cursor |-> 0,
            old |-> {}, since_call |-> {}, since_entry |-> {}, deleted |-> {}]

NoEvents == [hits |-> 0, misses |-> 0, mutations |-> 0, insertion_rejections |-> 0,
             bumpups |-> 0, expired_keys |-> 0, evicted_keys |-> 0]

\* obj, deadline: the value and expire_at_ms given to AddOrUpdate; fresh: the key and
\* value of a successful AddOrUpdate without deadline once its AutoUpdater has run,
\* for as long as nothing but time passing has followed.
\* params: the ExpireParams given to UpdateExpire; before: the deadline of the expire
\* iterator given to it (NoExpire for an invalid one); persisted: the key whose
\* expiration UpdateExpire has removed and the deadline it had, for as long as
\* nothing but reads and time passing has followed.
NoFresh == [key |-> 0, obj |-> 0]

NoPersisted == [key |-> 0, before |-> 0]

NoParams == [value |-> 0, unit |-> "MSEC", absolute |-> FALSE, persist |-> FALSE,
             expire_options |-> {}]

\* The lock call a handler served: its mode and KeyLockArgs, trans_locks as it was
\* before the call (for a Release that directly follows the Acquire of the same mode
\* and arguments: before that Acquire, and paired is set).
NoLockCall == [mode |-> "none", args |-> <<>>, key_step |-> 1, paired |-> FALSE,
               before |-> [k \in Keys |-> NoLock]]

NoLast == [op |-> "none", key |-> 0, status |-> "none", arg |-> 0, evicted |-> {},
           obj |-> 0, deadline |-> 0, fresh |-> NoFresh, params |-> NoParams,
           before |-> 0, persisted |-> NoPersisted, lock |-> NoLockCall]

\* The fields of the slice, as one record the handlers transform.  notices, erased,
\* inserted and written (the keys PreUpdate ran for) collect what one handler does.
SliceOf == [prime |-> prime, expire |-> expire, expire_dup |-> expire_dup,
            bucket_version |-> bucket_version,
            segments |-> segments, version_ |-> version_,
            deletion_count_ |-> deletion_count_, change_cb_ |-> change_cb_,
            trans_locks |-> trans_locks, memory_budget_ |-> memory_budget_,
            bumped_items_ |-> bumped_items_, caching_mode_ |-> caching_mode_,
            expire_allowed_ |-> expire_allowed_, is_replica |-> is_replica,
            has_journal |-> has_journal,
            loading |-> loading,
            dchecks |-> dchecks, crashed |-> crashed, delivered |-> delivered,
            retired |-> retired, cluster_enabled |-> cluster_enabled,
            slots_stats |-> slots_stats, obj_memory_usage |-> obj_memory_usage,
            memory_usage_by_type |-> memory_usage_by_type,
            watched_keys |-> watched_keys, watched_dirty |-> watched_dirty,
            events_ |-> NoEvents, journal |-> <<>>, notices |-> <<>>, erased |-> {},
            inserted |-> {}, written |-> {}]

(***************************************************************************)
(* The hash tables.  The dash table itself is not part of the sources at   *)
(* hand; it is modelled by its contract: an entry lives in one bucket,     *)
(* every bucket has a version, an insert goes to the key's home bucket and *)
(* overflows to a stash bucket, and a bucket holds kBucketWidth entries    *)
(* per segment.                                                            *)
(***************************************************************************)
DbSize(s) == Cardinality({k \in Keys : s.prime[k].present})

KeySlot(k) == k % NumSlots

HomeBucket(k) == k % kRegularBucketCnt

\* eb.probes.by_type.stash_buckets[eb.key_hash % kNumStashBuckets]
StashBucket(k) == kRegularBucketCnt + (k % kStashBucketCnt)

InBucket(s, b) == {k \in Keys : s.prime[k].present /\ s.prime[k].bucket = b}

HasRoom(s, b) == Cardinality(InBucket(s, b)) < kBucketWidth * s.segments

Capacity(s) == s.segments * kSegCapacity

NoBucket == 0 - 1

\* The bucket an insert of k lands in, NoBucket when the segment is full for k.
TargetBucket(s, k) ==
  IF HasRoom(s, HomeBucket(k)) THEN HomeBucket(k)
  ELSE IF HasRoom(s, StashBucket(k)) THEN StashBucket(k)
  ELSE NoBucket

\* The keys that may sit in the last slot of k's stash bucket; 0 is an empty slot.
LastSlotChoices(s, k) ==
  IF HasRoom(s, StashBucket(k)) THEN {0} ELSE InBucket(s, StashBucket(k))

NextVersion(s) == s.version_

AdvanceVersion(s) == [s EXCEPT !.version_ = @ + 1]

\* it.SetVersion(NextVersion())
SetNextVersion(s, k) ==
  AdvanceVersion([s EXCEPT !.bucket_version[s.prime[k].bucket] = NextVersion(s)])

GetVersion(s, k) == s.bucket_version[s.prime[k].bucket]

Crash(s) == [s EXCEPT !.crashed = TRUE]

\* The budget handed to the eviction policy without the key's bytes taken off.
DebitNothing(budget, n) == budget

\* ssize_t arithmetic on the budget; SSIZE_MAX less a few bytes is still without limit.
Debit(budget, n) == IF budget = Unlimited THEN Unlimited ELSE budget - n

(***************************************************************************)
(* Sizes, types and the memory accounting.  A value stands for its heap    *)
(* bytes; the highest value is a hash, the others are strings.  One key is *)
(* the empty string.                                                       *)
(***************************************************************************)
EmptyKey == NumKeys

\* key.size()
Size(k) == IF k = EmptyKey THEN 0 ELSE KeySize

\* it->first.MallocUsed()
KeyMallocUsed(k) == Size(k)

\* it->second.MallocUsed()
MallocUsed(obj) == obj

\* it->second.ObjType(); a PrimeValue{} is an empty string.
ObjType(obj) == IF obj = MaxVal THEN "OBJ_HASH" ELSE "OBJ_STRING"

NoType == "nullopt"

ObjTypes == {"OBJ_STRING", "OBJ_HASH"}

\* it->first.ObjType(): a key is a string.
KeyObjType == "OBJ_STRING"

\* AccountObjectMemory; obj_memory_usage is kept as the int64_t the DCHECK reads.
\* AddTypeMemoryUsage adds the size to obj_memory_usage and to the counter of the type.
AccountObjectMemory(s, k, type, size) ==
  IF s.obj_memory_usage + size < 0 /\ s.dchecks THEN Crash(s)
  ELSE [s EXCEPT !.obj_memory_usage = @ + size,
                 !.memory_usage_by_type[type] = @ + size]

(***************************************************************************)
(* Deletion and lazy expiration.                                           *)
(***************************************************************************)
\* expire.Erase of the entry a lookup of k finds; a second entry of k, if there is
\* one, is what the next lookup finds.
EraseExpire(s, k) ==
  [s EXCEPT !.expire[k] = s.expire_dup[k], !.expire_dup[k] = NoExpire]

\* PerformDeletion that leaves the key count of the slot as it is.
PerformDeletionExpKeepCount(s, k, exp_valid) ==
  LET Erased(s1) ==
        IF s1.crashed THEN s1
        ELSE [s1 EXCEPT !.prime[k] = Absent, !.erased = @ \cup {k}]
      ValueAccounted(s1) ==
        IF s1.crashed THEN s1
        ELSE Erased(AccountObjectMemory(s1, k, ObjType(s.prime[k].val),
                                        0 - MallocUsed(s.prime[k].val)))
  IN  ValueAccounted(AccountObjectMemory(
        IF exp_valid THEN EraseExpire(s, k) ELSE s, k, KeyObjType, 0 - KeyMallocUsed(k)))

\* void PerformDeletion(PrimeIterator, ExpireIterator, DbTable*)
PerformDeletionExp(s, k, exp_valid) ==
  LET Erased(s1) ==
        IF s1.crashed THEN s1
        ELSE [s1 EXCEPT !.slots_stats[KeySlot(k)].key_count =
                          IF s.cluster_enabled THEN @ - 1 ELSE @,
                        !.prime[k] = Absent,
                        !.erased = @ \cup {k}]
      ValueAccounted(s1) ==
        IF s1.crashed THEN s1
        ELSE Erased(AccountObjectMemory(s1, k, ObjType(s.prime[k].val),
                                        0 - MallocUsed(s.prime[k].val)))
  IN  ValueAccounted(AccountObjectMemory(
        IF exp_valid THEN EraseExpire(s, k) ELSE s, k, KeyObjType, 0 - KeyMallocUsed(k)))

\* void PerformDeletion(PrimeIterator, DbTable*)
PerformDeletion(s, k) ==
  IF s.prime[k].has_expire /\ s.expire[k] = NoExpire /\ s.dchecks THEN Crash(s)
  ELSE PerformDeletionExp(s, k, s.prime[k].has_expire /\ s.expire[k] # NoExpire)

\* journal->RecordEntry(0, journal::Op::EXPIRED, ..., make_pair("DEL", key), false);
\* erased: the keys the handler had erased from the PrimeTable when the entry was
\* written.
RecordEntry(s, k) ==
  [s EXCEPT !.journal = Append(@, [op |-> "EXPIRED", cmd |-> "DEL", key |-> k,
                                   erased |-> s.erased])]

\* RecordExpiry(cntx.db_index, key), called when the shard has a journal.
RecordExpiry(s, k) == IF s.has_journal THEN RecordEntry(s, k) ELSE s

\* ++events_.expired_keys
CountExpired(s) == IF s.crashed THEN s ELSE [s EXCEPT !.events_.expired_keys = @ + 1]

\* ExpireIfNeeded with a deadline equal to the clock taken as not yet reached.
ExpireIfNeededLate(s, t, k) ==
  IF (~s.prime[k].has_expire /\ s.dchecks) \/ s.expire[k] = NoExpire
  THEN [s |-> Crash(s), valid |-> FALSE]
  ELSE IF t <= s.expire[k] \/ s.is_replica \/ ~s.expire_allowed_
       THEN [s |-> s, valid |-> TRUE]
       ELSE [s |-> CountExpired(PerformDeletionExp(RecordExpiry(s, k), k, TRUE)),
             valid |-> FALSE]

\* ExpireIfNeeded that writes the journal entry of an expiry twice.
ExpireIfNeededTwice(s, t, k) ==
  IF (~s.prime[k].has_expire /\ s.dchecks) \/ s.expire[k] = NoExpire
  THEN [s |-> Crash(s), valid |-> FALSE]
  ELSE IF t < s.expire[k] \/ s.is_replica \/ ~s.expire_allowed_
       THEN [s |-> s, valid |-> TRUE]
       ELSE [s |-> CountExpired(PerformDeletionExp(RecordExpiry(RecordExpiry(s, k), k),
                                                   k, TRUE)),
             valid |-> FALSE]

ExpireIfNeeded(s, t, k) ==
  IF (~s.prime[k].has_expire /\ s.dchecks) \/ s.expire[k] = NoExpire
  THEN [s |-> Crash(s), valid |-> FALSE]
  ELSE IF t < s.expire[k] \/ s.is_replica \/ ~s.expire_allowed_
       THEN [s |-> s, valid |-> TRUE]
       ELSE [s |-> CountExpired(PerformDeletionExp(RecordExpiry(s, k), k, TRUE)),
             valid |-> FALSE]

(***************************************************************************)
(* Change callbacks.  A callback is known by its version; an invocation is *)
(* recorded with what the callback can observe of the entry at that time.  *)
(***************************************************************************)
Notice(s, cb, kind, k) ==
  [cb |-> cb, kind |-> kind, key |-> k, present |-> s.prime[k].present,
   val |-> s.prime[k].val]

\* for (const auto& ccb : change_cb_) ccb.second(...)
Notify(s, kind, k) ==
  [s EXCEPT !.notices =
     @ \o [i \in 1..Len(s.change_cb_) |-> Notice(s, s.change_cb_[i], kind, k)]]

CallbackVersions(s) == {s.change_cb_[i] : i \in 1..Len(s.change_cb_)}

\* PreUpdate without it.SetVersion(NextVersion()).
PreUpdateNoVersion(s, k) ==
  [Notify(s, "mutation", k) EXCEPT
     !.delivered[s.prime[k].bucket] = CallbackVersions(s),
     !.written = @ \cup {k}]

PreUpdate(s, k) ==
  SetNextVersion([Notify(s, "mutation", k) EXCEPT
                    !.delivered[s.prime[k].bucket] = CallbackVersions(s),
                    !.written = @ \cup {k}], k)

\* RegisterOnChange reading version_ without incrementing it.
RegisterOnChangeSameVersion(s) ==
  [s |-> [s EXCEPT !.change_cb_ = Append(@, NextVersion(s))],
   ver |-> NextVersion(s)]

RegisterOnChange(s) ==
  [s |-> AdvanceVersion([s EXCEPT !.change_cb_ = Append(@, NextVersion(s))]),
   ver |-> NextVersion(s)]

RECURSIVE FlushChangeFrom(_, _, _, _)
FlushChangeFrom(s, k, upper_bound, i) ==
  IF i > Len(s.change_cb_) THEN s
  ELSE IF s.change_cb_[i] > upper_bound /\ s.dchecks THEN Crash(s)
  ELSE IF s.change_cb_[i] = upper_bound THEN s
  ELSE IF GetVersion(s, k) < s.change_cb_[i]
  THEN FlushChangeFrom([s EXCEPT !.notices =
                          Append(@, Notice(s, s.change_cb_[i], "mutation", k))],
                       k, upper_bound, i + 1)
  ELSE FlushChangeFrom(s, k, upper_bound, i + 1)

FlushChangeToEarlierCallbacks(s, k, upper_bound) == FlushChangeFrom(s, k, upper_bound, 1)

\* Erases the first callback registered as id; LOG(DFATAL) when there is none.
UnregisterOnChange(s, id) ==
  IF \E i \in 1..Len(s.change_cb_) : s.change_cb_[i] = id
  THEN LET at == CHOOSE i \in 1..Len(s.change_cb_) :
                   /\ s.change_cb_[i] = id
                   /\ \A j \in 1..(i - 1) : s.change_cb_[j] # id
       IN  [s EXCEPT !.change_cb_ = SubSeq(@, 1, at - 1) \o SubSeq(@, at + 1, Len(@)),
                     !.retired = @ \cup {id}]
  ELSE IF s.dchecks THEN Crash(s) ELSE s

(***************************************************************************)
(* The read path.                                                          *)
(***************************************************************************)
\* CVCUponBump, BumpUp, ++events_.bumpups and the insert into bumped_items_.
Bump(s, k) ==
  [(IF s.change_cb_ # <<>> /\ GetVersion(s, k) < s.change_cb_[Len(s.change_cb_)]
    THEN Notify(s, "bump", k)
    ELSE s)
   EXCEPT !.events_.bumpups = @ + 1, !.bumped_items_ = @ \cup {k}]

\* The absl::Cleanup update_stats_on_miss: it runs on every return of FindInternal
\* that comes before its Cancel().
UpdateStatsOnMiss(s, stats_mode) ==
  IF stats_mode = "kMutableStats" THEN [s EXCEPT !.events_.mutations = @ + 1]
  ELSE [s EXCEPT !.events_.misses = @ + 1]

\* The counters of a lookup that reaches its end.
UpdateStatsOnHit(s, stats_mode) ==
  IF stats_mode = "kMutableStats" THEN [s EXCEPT !.events_.mutations = @ + 1]
  ELSE [s EXCEPT !.events_.hits = @ + 1]

FindInternal(s, t, k, req_obj_type, stats_mode) ==
  LET Missed(s1, status) ==
        [s |-> UpdateStatsOnMiss(s1, stats_mode), status |-> status, exp_valid |-> FALSE]
      Checked(e) ==
        IF ~e.valid THEN Missed(e.s, "KEY_NOTFOUND")
        ELSE [s |-> UpdateStatsOnHit(IF s.caching_mode_ THEN Bump(e.s, k) ELSE e.s,
                                     stats_mode),
              status |-> "OK",
              exp_valid |-> s.prime[k].has_expire]
  IN  IF ~s.prime[k].present THEN Missed(s, "KEY_NOTFOUND")
      ELSE IF req_obj_type # NoType /\ ObjType(s.prime[k].val) # req_obj_type
      THEN Missed(s, "WRONG_TYPE")
      ELSE IF s.prime[k].has_expire THEN Checked(ExpireIfNeeded(s, t, k))
      ELSE Checked([s |-> s, valid |-> TRUE])

(***************************************************************************)
(* The eviction policy and the insert it is injected into.                 *)
(***************************************************************************)
CanGrow(s, mem_budget, apply_memory_limit) ==
  IF ~apply_memory_limit \/ mem_budget > kSoftBudgetLimit THEN TRUE
  ELSE mem_budget >
         (10 * kSegBytes
            + 11 * kBytesPerObject * ((Capacity(s) - DbSize(s)) + kSegCapacity)) \div 10

RECURSIVE GarbageCollectFrom(_, _, _, _, _)
GarbageCollectFrom(s, t, b, i, res) ==
  LET Counted(r) == GarbageCollectFrom(r.s, t, b, i + 1, IF r.valid THEN res ELSE res + 1)
  IN  IF i > NumKeys \/ s.crashed THEN [s |-> s, res |-> res]
      ELSE IF s.prime[i].present /\ s.prime[i].bucket = b /\ s.prime[i].has_expire
      THEN Counted(ExpireIfNeeded(s, t, i))
      ELSE GarbageCollectFrom(s, t, b, i + 1, res)

\* Only the regular hotspot buckets are passed to gc.
GarbageCollect(s, t, k) == GarbageCollectFrom(s, t, HomeBucket(k), 1, 0)

\* lt.find(KeyLockArgs::GetLockKey(key)) != lt.end()
Locked(s, k) == s.trans_locks[k].present

\* Evict without the test of the sticky bit and without the lookup in trans_locks.
EvictUnchecked(s, k, victim, can_evict) ==
  IF ~can_evict THEN [s |-> s, res |-> 0, evicted |-> {}]
  ELSE IF victim = 0 THEN [s |-> s, res |-> 1, evicted |-> {}]
  ELSE [s |-> PerformDeletion(RecordExpiry(s, victim), victim), res |-> 1,
        evicted |-> {victim}]

\* victim is the key in the last slot of the stash bucket chosen for k, 0 if empty.
Evict(s, k, victim, can_evict) ==
  IF ~can_evict THEN [s |-> s, res |-> 0, evicted |-> {}]
  ELSE IF victim = 0 THEN [s |-> s, res |-> 1, evicted |-> {}]
  ELSE IF s.prime[victim].sticky THEN [s |-> s, res |-> 0, evicted |-> {}]
  ELSE IF Locked(s, victim) THEN [s |-> s, res |-> 0, evicted |-> {}]
  ELSE [s |-> PerformDeletion(RecordExpiry(s, victim), victim), res |-> 1,
        evicted |-> {victim}]

Place(s, k) ==
  [s EXCEPT !.prime[k] = [present |-> TRUE, val |-> 0, has_expire |-> FALSE,
                          sticky |-> FALSE, bucket |-> TargetBucket(s, k)],
            !.inserted = @ \cup {k}]

\* db.prime.InsertNew(key, PrimeValue{}, evp): insert; on a full segment collect
\* garbage, else split if the policy lets the table grow, else evict, else bad_alloc.
InsertNew(s, t, k, victim, mem_budget, can_evict, apply_memory_limit) ==
  LET Out(s1, ok, budget, evicted) ==
        [s |-> s1, ok |-> ok, mem_budget |-> budget, evicted |-> evicted]
      Evicted(ev) ==
        IF ev.res = 0 \/ ev.s.crashed THEN Out(ev.s, FALSE, mem_budget, {})
        ELSE Out(Place(ev.s, k), TRUE, mem_budget, ev.evicted)
      Collected(gc) ==
        IF gc.s.crashed THEN Out(gc.s, FALSE, mem_budget, {})
        ELSE IF gc.res > 0 THEN Out(Place(gc.s, k), TRUE, mem_budget, {})
        ELSE IF CanGrow(gc.s, mem_budget, apply_memory_limit)
        THEN Out(Place([gc.s EXCEPT !.segments = @ + 1], k), TRUE,
                 Debit(mem_budget, kSegBytes), {})
        ELSE Evicted(Evict(gc.s, k, victim, can_evict))
  IN  IF TargetBucket(s, k) # NoBucket THEN Out(Place(s, k), TRUE, mem_budget, {})
      ELSE Collected(GarbageCollect(s, t, k))

\* The busy slots in the order the walk of FreeMemWithEvictionStep visits them:
\* from the highest down, wrapping around at the slot the random start falls on.
RECURSIVE HighToLow(_)
HighToLow(S) ==
  IF S = {} THEN <<>>
  ELSE LET top == CHOOSE x \in S : \A y \in S : y <= x
       IN  <<top>> \o HighToLow(S \ {top})

WalkOrder(s, start) ==
  HighToLow({k \in Keys : s.prime[k].present /\ k <= start})
    \o HighToLow({k \in Keys : s.prime[k].present /\ k > start})

\* The walk deletes an entry and then tests whether to stop: at max_eviction_per_hb
\* deletions, or when the goal is reclaimed (goal is the number of deletions that
\* reclaim increase_goal_bytes).
RECURSIVE EvictionWalk(_, _, _, _, _, _)
EvictionWalk(s, order, i, evicted, max_eviction_per_hb, goal) ==
  IF i > Len(order) \/ s.crashed
  THEN [s |-> s, evicted |-> evicted]
  ELSE IF s.prime[order[i]].sticky
  THEN EvictionWalk(s, order, i + 1, evicted, max_eviction_per_hb, goal)
  ELSE IF Locked(s, order[i])
  THEN EvictionWalk(s, order, i + 1, evicted, max_eviction_per_hb, goal)
  ELSE IF \/ Cardinality(evicted \cup {order[i]}) = max_eviction_per_hb
          \/ Cardinality(evicted \cup {order[i]}) >= goal
  THEN [s |-> PerformDeletion(s, order[i]), evicted |-> evicted \cup {order[i]}]
  ELSE EvictionWalk(PerformDeletion(s, order[i]), order, i + 1,
                    evicted \cup {order[i]}, max_eviction_per_hb, goal)

\* The entries of keys_to_journal, written in the order the keys were evicted.
RECURSIVE RecordEvicted(_, _, _, _)
RecordEvicted(s, order, i, evicted) ==
  IF i > Len(order) THEN s
  ELSE IF order[i] \in evicted
  THEN RecordEvicted(RecordExpiry(s, order[i]), order, i + 1, evicted)
  ELSE RecordEvicted(s, order, i + 1, evicted)

\* max_eviction_per_hb and enable_heartbeat_eviction are the values of the flags
\* max_eviction_per_heartbeat and enable_heartbeat_eviction.
FreeMemWithEvictionStep(s, start, goal, max_eviction_per_hb, enable_heartbeat_eviction) ==
  LET Finish(w) ==
        IF w.s.crashed THEN w
        ELSE [w EXCEPT !.s = [RecordEvicted(w.s, WalkOrder(s, start), 1, w.evicted)
                                EXCEPT !.events_.evicted_keys =
                                         @ + Cardinality(w.evicted)]]
  IN  IF s.is_replica /\ s.dchecks THEN [s |-> Crash(s), evicted |-> {}]
      ELSE IF ~s.caching_mode_ \/ ~s.expire_allowed_ \/ ~enable_heartbeat_eviction
      THEN [s |-> s, evicted |-> {}]
      ELSE Finish(EvictionWalk(s, WalkOrder(s, start), 1, {}, max_eviction_per_hb, goal))
(***************************************************************************)
(* The AutoUpdater.                                                        *)
(***************************************************************************)
\* AutoUpdater(const Fields&): captures the size and the deletion counter.
NewUpdater(s, k) ==
  [action |-> "kRun", key |-> k, db_size |-> DbSize(s),
   deletion_count |-> s.deletion_count_,
   orig_heap_size |-> MallocUsed(s.prime[k].val)]

\* PostUpdate that leaves the memory accounting as it is.
PostUpdateNoAccounting(s, k, orig_size) == s

\* PostUpdate: the accounting after the caller's mutation, and the watchers of the
\* key: every connection that watches it is marked dirty and the key is no longer
\* watched.  It changes no entry.
PostUpdate(s, k, orig_size) ==
  LET Marked(s1) ==
        IF s1.crashed THEN s1
        ELSE [s1 EXCEPT !.watched_dirty =
                          [conn \in WatchConns |-> @[conn] \/ conn \in s.watched_keys[k]],
                        !.watched_keys[k] = {}]
  IN  Marked(AccountObjectMemory(s, k, ObjType(s.prime[k].val),
                                 MallocUsed(s.prime[k].val) - orig_size))

\* AutoUpdater::Run; applied tells whether PostUpdate ran.
Run(s, u) ==
  IF u.action = "kDoNothing" THEN [s |-> s, applied |-> FALSE]
  ELSE IF ~s.prime[u.key].present /\ s.dchecks THEN [s |-> Crash(s), applied |-> FALSE]
  ELSE IF u.db_size # DbSize(s) THEN [s |-> Crash(s), applied |-> FALSE]
  ELSE IF u.deletion_count # s.deletion_count_ THEN [s |-> Crash(s), applied |-> FALSE]
  ELSE [s |-> PostUpdate(s, u.key, u.orig_heap_size), applied |-> TRUE]

(***************************************************************************)
(* The write path.                                                         *)
(***************************************************************************)
FindMutableInternal(s, t, k) ==
  LET Updated(s1) ==
        [s |-> s1, status |-> "OK", exp_valid |-> s.prime[k].has_expire,
         upd |-> NewUpdater(s1, k)]
      Found(f) ==
        IF f.status # "OK" \/ f.s.crashed
        THEN [s |-> f.s, status |-> f.status, exp_valid |-> FALSE, upd |-> NoUpdater]
        ELSE Updated(PreUpdate(f.s, k))
  IN  Found(FindInternal(s, t, k, NoType, "kMutableStats"))

\* AddOrFindInternal with the new-key notices sent after the insertion.
AddOrFindInternalNotifyLate(s, t, k, victim) ==
  LET Out(s1, status, is_new, exp_valid, evicted) ==
        [s |-> s1, status |-> status, is_new |-> is_new, exp_valid |-> exp_valid,
         upd |-> IF status = "OK" /\ ~s1.crashed THEN NewUpdater(s1, k) ELSE NoUpdater,
         evicted |-> evicted]
      Rejected(s1) ==
        Out([s1 EXCEPT !.events_.insertion_rejections = @ + 1], "OUT_OF_MEMORY",
            FALSE, FALSE, {})
      Counted(s1, mem_budget, evicted) ==
        IF s1.crashed THEN Out(s1, "OK", TRUE, FALSE, evicted)
        ELSE Out([SetNextVersion(Notify(s1, "newkey", k), k)
                    EXCEPT !.memory_budget_ = mem_budget,
                           !.events_.evicted_keys = @ + Cardinality(evicted),
                           !.slots_stats[KeySlot(k)].key_count =
                             IF s.cluster_enabled THEN @ + 1 ELSE @],
                 "OK", TRUE, FALSE, evicted)
      Inserted(ins) ==
        IF ins.s.crashed THEN Out(ins.s, "OUT_OF_MEMORY", FALSE, FALSE, {})
        ELSE IF ~ins.ok THEN Rejected(ins.s)
        ELSE Counted(AccountObjectMemory(ins.s, k, KeyObjType, KeyMallocUsed(k)),
                     ins.mem_budget, ins.evicted)
      Added(s1, apply_memory_limit, can_evict, mem_budget) ==
        IF apply_memory_limit /\ ~s.caching_mode_ /\ mem_budget < 0
        THEN Rejected(s1)
        ELSE Inserted(InsertNew(s1, t, k, victim, mem_budget, can_evict,
                                apply_memory_limit))
      Found(f) ==
        IF f.s.crashed THEN Out(f.s, "KEY_NOTFOUND", FALSE, FALSE, {})
        ELSE IF f.status = "OK" THEN Out(PreUpdate(f.s, k), "OK", FALSE, f.exp_valid, {})
        ELSE Added(f.s, ~s.is_replica /\ ~s.loading,
                   s.caching_mode_ /\ ~s.is_replica, Debit(s.memory_budget_, Size(k)))
  IN  Found(FindInternal(s, t, k, NoType, "kMutableStats"))

AddOrFindInternal(s, t, k, victim) ==
  LET Out(s1, status, is_new, exp_valid, evicted) ==
        [s |-> s1, status |-> status, is_new |-> is_new, exp_valid |-> exp_valid,
         upd |-> IF status = "OK" /\ ~s1.crashed THEN NewUpdater(s1, k) ELSE NoUpdater,
         evicted |-> evicted]
      Rejected(s1) ==
        Out([s1 EXCEPT !.events_.insertion_rejections = @ + 1], "OUT_OF_MEMORY",
            FALSE, FALSE, {})
      Counted(s1, mem_budget, evicted) ==
        IF s1.crashed THEN Out(s1, "OK", TRUE, FALSE, evicted)
        ELSE Out([SetNextVersion(s1, k)
                    EXCEPT !.memory_budget_ = mem_budget,
                           !.events_.evicted_keys = @ + Cardinality(evicted),
                           !.slots_stats[KeySlot(k)].key_count =
                             IF s.cluster_enabled THEN @ + 1 ELSE @],
                 "OK", TRUE, FALSE, evicted)
      Inserted(ins) ==
        IF ins.s.crashed THEN Out(ins.s, "OUT_OF_MEMORY", FALSE, FALSE, {})
        ELSE IF ~ins.ok THEN Rejected(ins.s)
        ELSE Counted(AccountObjectMemory(ins.s, k, KeyObjType, KeyMallocUsed(k)),
                     ins.mem_budget, ins.evicted)
      Added(s1, apply_memory_limit, can_evict, mem_budget) ==
        IF apply_memory_limit /\ ~s.caching_mode_ /\ mem_budget < 0
        THEN Rejected(s1)
        ELSE Inserted(InsertNew(s1, t, k, victim, mem_budget, can_evict,
                                apply_memory_limit))
      Found(f) ==
        IF f.s.crashed THEN Out(f.s, "KEY_NOTFOUND", FALSE, FALSE, {})
        ELSE IF f.status = "OK" THEN Out(PreUpdate(f.s, k), "OK", FALSE, f.exp_valid, {})
        ELSE Added(Notify(f.s, "newkey", k), ~s.is_replica /\ ~s.loading,
                   s.caching_mode_ /\ ~s.is_replica, Debit(s.memory_budget_, Size(k)))
  IN  Found(FindInternal(s, t, k, NoType, "kMutableStats"))

\* it->second = std::move(obj): the entry takes the whole of obj, its flag bits
\* included; obj is a value the caller has just built, so it carries no expire flag.
MoveAssign(entry, obj) == [entry EXCEPT !.val = obj, !.has_expire = FALSE]

\* AddOrUpdateInternal whose assignment keeps the expire flag of the stored value.
AddOrUpdateInternalKeepExpire(s, t, k, obj, expire_at_ms, force_update, victim) ==
  LET Assigned(r, s1) ==
        IF expire_at_ms = 0 THEN [r EXCEPT !.s = s1]
        ELSE IF r.exp_valid \/ s1.expire[k] = NoExpire
        THEN [r EXCEPT !.s = [s1 EXCEPT !.prime[k].has_expire = TRUE,
                                        !.expire[k] = expire_at_ms],
                       !.exp_valid = TRUE]
        ELSE [r EXCEPT !.s = [s1 EXCEPT !.prime[k].has_expire = TRUE,
                                        !.expire[k] = expire_at_ms,
                                        !.expire_dup[k] = s1.expire[k]],
                       !.exp_valid = TRUE]
      Found(r) ==
        IF r.status # "OK" \/ r.s.crashed THEN r
        ELSE IF ~r.is_new /\ ~force_update THEN r
        ELSE Assigned(r, [r.s EXCEPT !.prime[k].val = obj])
  IN  Found(AddOrFindInternal(s, t, k, victim))

\* With a deadline, the ExpireTable entry the lookup returned is overwritten; when
\* the lookup returned none, db.expire.InsertNew adds an entry, next to an entry of
\* the key that the lookup did not return if the table holds one.
AddOrUpdateInternal(s, t, k, obj, expire_at_ms, force_update, victim) ==
  LET Assigned(r, s1) ==
        IF expire_at_ms = 0 THEN [r EXCEPT !.s = s1]
        ELSE IF r.exp_valid \/ s1.expire[k] = NoExpire
        THEN [r EXCEPT !.s = [s1 EXCEPT !.prime[k].has_expire = TRUE,
                                        !.expire[k] = expire_at_ms],
                       !.exp_valid = TRUE]
        ELSE [r EXCEPT !.s = [s1 EXCEPT !.prime[k].has_expire = TRUE,
                                        !.expire[k] = expire_at_ms,
                                        !.expire_dup[k] = s1.expire[k]],
                       !.exp_valid = TRUE]
      Found(r) ==
        IF r.status # "OK" \/ r.s.crashed THEN r
        ELSE IF ~r.is_new /\ ~force_update THEN r
        ELSE Assigned(r, [r.s EXCEPT !.prime[k] = MoveAssign(@, obj)])
  IN  Found(AddOrFindInternal(s, t, k, victim))

\* AddNew CHECKs that the key was new.
AddNew(s, t, k, obj, expire_at_ms, victim) ==
  LET Checked(r) == IF r.status = "OK" /\ ~r.is_new THEN [r EXCEPT !.s = Crash(r.s)] ELSE r
  IN  Checked(AddOrUpdateInternal(s, t, k, obj, expire_at_ms, FALSE, victim))

Del(s, k) ==
  IF ~s.prime[k].present THEN [s |-> s, res |-> FALSE]
  ELSE [s |-> [PerformDeletion([s EXCEPT !.bumped_items_ = @ \ {k}], k)
                 EXCEPT !.deletion_count_ = @ + 1],
        res |-> TRUE]

\* Every connection that watches a key of the table is marked dirty.
InvalidateDbWatches(s) ==
  [conn \in WatchConns |->
     s.watched_dirty[conn] \/ \E k \in Keys : conn \in s.watched_keys[k]]

\* Every connection that watches any key is marked dirty, whatever the slots.
InvalidateSlotWatchesAll(s, slot_ids) == InvalidateDbWatches(s)

\* Every connection that watches a key of one of the slots is marked dirty.
InvalidateSlotWatches(s, slot_ids) ==
  [conn \in WatchConns |->
     s.watched_dirty[conn]
       \/ \E k \in Keys : KeySlot(k) \in slot_ids /\ conn \in s.watched_keys[k]]

\* RegisterWatchedKey: watched_keys[key].push_back(exec_info).
RegisterWatchedKey(s, k, conn) == [s EXCEPT !.watched_keys[k] = @ \cup {conn}]

\* FlushDbIndexes({0}): a fresh DbTable, with fresh statistics, takes the place of
\* the old one and takes over its locks.
FlushDb(s) ==
  IF s.bumped_items_ # {} THEN Crash(s)
  ELSE [s EXCEPT !.prime = [k \in Keys |-> Absent],
                 !.expire = [k \in Keys |-> NoExpire],
                 !.expire_dup = [k \in Keys |-> NoExpire],
                 !.bucket_version = [b \in Buckets |-> 0],
                 !.segments = 1,
                 !.slots_stats = [sid \in Slots |-> [key_count |-> 0]],
                 !.obj_memory_usage = 0,
                 !.memory_usage_by_type = [type \in ObjTypes |-> 0],
                 !.watched_dirty = InvalidateDbWatches(s),
                 !.watched_keys = [k \in Keys |-> {}],
                 !.erased = {k \in Keys : s.prime[k].present}]

(***************************************************************************)
(* Expiration updates.                                                     *)
(***************************************************************************)
AddExpire(s, k, at) ==
  IF s.expire[k] # NoExpire THEN Crash(s)
  ELSE [s EXCEPT !.expire[k] = at, !.prime[k].has_expire = TRUE]

RemoveExpire(s, k) ==
  IF s.prime[k].has_expire
  THEN IF s.expire[k] = NoExpire THEN [s |-> Crash(s), res |-> FALSE]
       ELSE [s |-> [EraseExpire(s, k) EXCEPT !.prime[k].has_expire = FALSE],
             res |-> TRUE]
  ELSE [s |-> s, res |-> FALSE]

\* bool UpdateExpire(DbIndex, PrimeIterator, uint64_t at)
UpdateExpireAt(s, k, at) ==
  IF at = 0 THEN RemoveExpire(s, k)
  ELSE IF ~s.prime[k].has_expire THEN [s |-> AddExpire(s, k, at), res |-> TRUE]
  ELSE [s |-> s, res |-> FALSE]

\* ExpireParams::Calculate: <<rel_msec, abs_msec>>
Calculate(params, now_ms) ==
  IF params.persist THEN <<0, 0>>
  ELSE LET msec == IF params.unit = "SEC" THEN params.value * kMsPerSec ELSE params.value
           rel_msec == IF params.absolute THEN msec - now_ms ELSE msec
       IN  <<rel_msec, now_ms + rel_msec>>

\* UpdateExpire whose persist request is refused by NX on a key with an expiration.
UpdateExpirePersistHonoursNX(s, t, k, exp_valid, params) ==
  LET Deleted(d) ==
        [s |-> IF d.res THEN d.s ELSE Crash(d.s), status |-> "OK", value |-> 0 - 1]
      Timed(rel_msec, abs_msec, opts) ==
        IF rel_msec > kMaxExpireDeadlineSec * kMsPerSec
        THEN [s |-> s, status |-> "OUT_OF_RANGE", value |-> 0]
        ELSE IF rel_msec <= 0 THEN Deleted(Del(s, k))
        ELSE IF exp_valid
        THEN IF "NX" \in opts THEN [s |-> s, status |-> "SKIPPED", value |-> 0]
             ELSE IF "LT" \in opts /\ s.expire[k] <= abs_msec
             THEN [s |-> s, status |-> "SKIPPED", value |-> 0]
             ELSE IF "GT" \in opts /\ s.expire[k] >= abs_msec
             THEN [s |-> s, status |-> "SKIPPED", value |-> 0]
             ELSE [s |-> [s EXCEPT !.expire[k] = abs_msec], status |-> "OK",
                   value |-> abs_msec]
        ELSE IF "XX" \in opts THEN [s |-> s, status |-> "SKIPPED", value |-> 0]
        ELSE [s |-> AddExpire(s, k, abs_msec), status |-> "OK", value |-> abs_msec]
  IN  IF params.persist
      THEN IF exp_valid /\ "NX" \in params.expire_options
           THEN [s |-> s, status |-> "SKIPPED", value |-> 0]
           ELSE [s |-> RemoveExpire(s, k).s, status |-> "OK", value |-> 0]
      ELSE Timed(Calculate(params, t)[1], Calculate(params, t)[2], params.expire_options)

\* UpdateExpire without the test of the deadline against kMaxExpireDeadlineSec.
UpdateExpireNoLimit(s, t, k, exp_valid, params) ==
  LET Deleted(d) ==
        [s |-> IF d.res THEN d.s ELSE Crash(d.s), status |-> "OK", value |-> 0 - 1]
      Timed(rel_msec, abs_msec, opts) ==
        IF rel_msec <= 0 THEN Deleted(Del(s, k))
        ELSE IF exp_valid
        THEN IF "NX" \in opts THEN [s |-> s, status |-> "SKIPPED", value |-> 0]
             ELSE IF "LT" \in opts /\ s.expire[k] <= abs_msec
             THEN [s |-> s, status |-> "SKIPPED", value |-> 0]
             ELSE IF "GT" \in opts /\ s.expire[k] >= abs_msec
             THEN [s |-> s, status |-> "SKIPPED", value |-> 0]
             ELSE [s |-> [s EXCEPT !.expire[k] = abs_msec], status |-> "OK",
                   value |-> abs_msec]
        ELSE IF "XX" \in opts THEN [s |-> s, status |-> "SKIPPED", value |-> 0]
        ELSE [s |-> AddExpire(s, k, abs_msec), status |-> "OK", value |-> abs_msec]
  IN  IF params.persist
      THEN [s |-> RemoveExpire(s, k).s, status |-> "OK", value |-> 0]
      ELSE Timed(Calculate(params, t)[1], Calculate(params, t)[2], params.expire_options)

\* OpResult<int64_t> UpdateExpire(const Context&, PrimeIterator, ExpireIterator, params)
UpdateExpire(s, t, k, exp_valid, params) ==
  LET Deleted(d) ==
        [s |-> IF d.res THEN d.s ELSE Crash(d.s), status |-> "OK", value |-> 0 - 1]
      Timed(rel_msec, abs_msec, opts) ==
        IF rel_msec > kMaxExpireDeadlineSec * kMsPerSec
        THEN [s |-> s, status |-> "OUT_OF_RANGE", value |-> 0]
        ELSE IF rel_msec <= 0 THEN Deleted(Del(s, k))
        ELSE IF exp_valid
        THEN IF "NX" \in opts THEN [s |-> s, status |-> "SKIPPED", value |-> 0]
             ELSE IF "LT" \in opts /\ s.expire[k] <= abs_msec
             THEN [s |-> s, status |-> "SKIPPED", value |-> 0]
             ELSE IF "GT" \in opts /\ s.expire[k] >= abs_msec
             THEN [s |-> s, status |-> "SKIPPED", value |-> 0]
             ELSE [s |-> [s EXCEPT !.expire[k] = abs_msec], status |-> "OK",
                   value |-> abs_msec]
        ELSE IF "XX" \in opts THEN [s |-> s, status |-> "SKIPPED", value |-> 0]
        ELSE [s |-> AddExpire(s, k, abs_msec), status |-> "OK", value |-> abs_msec]
  IN  IF params.persist
      THEN [s |-> RemoveExpire(s, k).s, status |-> "OK", value |-> 0]
      ELSE Timed(Calculate(params, t)[1], Calculate(params, t)[2], params.expire_options)

(***************************************************************************)
(* Transaction locks: an IntentLock counts the references of each mode.    *)
(***************************************************************************)
\* The entry holds no reference of either mode.
IsFree(lock) == lock.shared = 0 /\ lock.exclusive = 0

\* lt[key].Acquire(mode): operator[] creates the entry, the reference is counted in
\* every case, and the lock is granted when the other mode holds no reference.
Acquire(s, mode, k) ==
  [s |-> [s EXCEPT !.trans_locks[k] = [@ EXCEPT !.present = TRUE, ![mode] = @ + 1]],
   res |-> s.trans_locks[k][IF mode = "shared" THEN "exclusive" ELSE "shared"] = 0]

\* Release that leaves the free entry in the table.
ReleaseKeepsFree(s, mode, k) ==
  IF ~s.trans_locks[k].present THEN Crash(s)
  ELSE [s EXCEPT !.trans_locks[k][mode] = @ - 1]

\* ReleaseNormalized: CHECKs that the entry exists; erases it once it is free.
Release(s, mode, k) ==
  IF ~s.trans_locks[k].present THEN Crash(s)
  ELSE IF IsFree([s.trans_locks[k] EXCEPT ![mode] = @ - 1])
       THEN [s EXCEPT !.trans_locks[k] = NoLock]
       ELSE [s EXCEPT !.trans_locks[k][mode] = @ - 1]

\* The loop of Acquire over args[i], i += key_step: a key enters uniq_keys_ once and
\* is locked then; lock_acquired &= the answer of its intent lock.
RECURSIVE AcquireLoop(_, _, _, _, _, _)
AcquireLoop(s, mode, lock_args, i, uniq_keys_, lock_acquired) ==
  IF i > Len(lock_args.args) THEN [s |-> s, res |-> lock_acquired]
  ELSE IF lock_args.args[i] \in uniq_keys_
       THEN AcquireLoop(s, mode, lock_args, i + lock_args.key_step, uniq_keys_,
                        lock_acquired)
       ELSE LET Rest(r) ==
                  AcquireLoop(r.s, mode, lock_args, i + lock_args.key_step,
                              uniq_keys_ \cup {lock_args.args[i]},
                              lock_acquired /\ r.res)
            IN  Rest(Acquire(s, mode, lock_args.args[i]))

\* The loop of Acquire with a uniq_keys_ that forgets every key.
RECURSIVE AcquireLoopNoDedup(_, _, _, _, _)
AcquireLoopNoDedup(s, mode, lock_args, i, lock_acquired) ==
  IF i > Len(lock_args.args) THEN [s |-> s, res |-> lock_acquired]
  ELSE LET Rest(r) ==
             AcquireLoopNoDedup(r.s, mode, lock_args, i + lock_args.key_step,
                                lock_acquired /\ r.res)
       IN  Rest(Acquire(s, mode, lock_args.args[i]))

\* Acquire that locks a key once per occurrence in args.
AcquireLockArgsNoDedup(s, mode, lock_args) ==
  IF lock_args.args = <<>> THEN [s |-> s, res |-> TRUE]
  ELSE IF Len(lock_args.args) = 1 THEN Acquire(s, mode, lock_args.args[1])
  ELSE AcquireLoopNoDedup(s, mode, lock_args, 1, TRUE)

\* DbSlice::Acquire(mode, lock_args).
AcquireLockArgs(s, mode, lock_args) ==
  IF lock_args.args = <<>> THEN [s |-> s, res |-> TRUE]
  ELSE IF Len(lock_args.args) = 1 THEN Acquire(s, mode, lock_args.args[1])
  ELSE AcquireLoop(s, mode, lock_args, 1, {}, TRUE)

\* The loop of Release over args[i], i += key_step.
RECURSIVE ReleaseLoop(_, _, _, _, _)
ReleaseLoop(s, mode, lock_args, i, uniq_keys_) ==
  IF s.crashed \/ i > Len(lock_args.args) THEN s
  ELSE IF lock_args.args[i] \in uniq_keys_
       THEN ReleaseLoop(s, mode, lock_args, i + lock_args.key_step, uniq_keys_)
       ELSE ReleaseLoop(Release(s, mode, lock_args.args[i]), mode, lock_args,
                        i + lock_args.key_step, uniq_keys_ \cup {lock_args.args[i]})

\* DbSlice::Release(mode, lock_args).
ReleaseLockArgs(s, mode, lock_args) ==
  IF lock_args.args = <<>> THEN s
  ELSE IF Len(lock_args.args) = 1 THEN Release(s, mode, lock_args.args[1])
  ELSE ReleaseLoop(s, mode, lock_args, 1, {})

(***************************************************************************)
(* The flush of slots.  FlushSlots launches a fiber and returns; the fiber *)
(* body FlushSlotsFb runs when the scheduler picks it, and yields after    *)
(* every kFlushYieldEvery buckets.                                         *)
(***************************************************************************)
RECURSIVE PerformDeletions(_, _, _)
PerformDeletions(s, i, D) ==
  IF i > NumKeys \/ s.crashed THEN s
  ELSE PerformDeletions(IF i \in D THEN PerformDeletion(s, i) ELSE s, i + 1, D)

\* Traverse without the comparison of the bucket version.
TraverseAllVersions(s, cursor, slot_ids, next_version) ==
  PerformDeletions(s, 1, {k \in Keys : /\ s.prime[k].present
                                       /\ s.prime[k].bucket = cursor
                                       /\ KeySlot(k) \in slot_ids})

\* One pt->Traverse(cursor, del_entry_cb): del_entry_cb on each entry of the bucket.
Traverse(s, cursor, slot_ids, next_version) ==
  PerformDeletions(s, 1, {k \in Keys : /\ s.prime[k].present
                                       /\ s.prime[k].bucket = cursor
                                       /\ KeySlot(k) \in slot_ids
                                       /\ s.bucket_version[cursor] < next_version})

\* The do-while loop up to its next yield; cursor 0 afterwards means it has ended.
RECURSIVE FlushLoop(_, _, _, _)
FlushLoop(s, cursor, slot_ids, next_version) ==
  LET Step(s1, i) ==
        IF i = kTotalBuckets \/ s1.crashed THEN [s |-> s1, cursor |-> 0]
        ELSE IF i % kFlushYieldEvery = 0 THEN [s |-> s1, cursor |-> i]
        ELSE FlushLoop(s1, i, slot_ids, next_version)
  IN  Step(Traverse(s, cursor, slot_ids, next_version), cursor + 1)

\* The fiber from its entry to its first yield.
FlushSlotsFb(s, slot_ids) == FlushLoop(AdvanceVersion(s), 0, slot_ids, NextVersion(s))

(***************************************************************************)
(* Actions: one per handler.  Commit installs the slice a handler returns, *)
(* the AutoUpdater the caller holds afterwards, and what was returned.     *)
(***************************************************************************)
\* The bookkeeping of a flush under way: old are the keys stored when FlushSlots was
\* called that no operation has erased or updated since; since_call and since_entry
\* are the keys inserted since the call, and since the fiber took next_version.
FlushSeen(s) ==
  IF flush.pc \in {"none", "done"} THEN flush
  ELSE [flush EXCEPT !.old = (@ \ s.erased) \ s.written,
                     !.since_call = (@ \ s.erased) \cup s.inserted,
                     !.since_entry = IF flush.pc = "running"
                                     THEN (@ \ s.erased) \cup s.inserted ELSE @]

Commit(s, upd, l, fl) ==
  /\ crashed' = s.crashed
  /\ last' = l
  /\ IF s.crashed
     THEN UNCHANGED <<prime, expire, expire_dup, bucket_version, segments, version_,
                      deletion_count_, change_cb_, trans_locks, memory_budget_,
                      bumped_items_, notices, updater, touched, flush, delivered,
                      retired, slots_stats, obj_memory_usage, memory_usage_by_type,
                      watched_keys, watched_dirty, events_, journal>>
     ELSE /\ prime' = s.prime
          /\ expire' = s.expire
          /\ expire_dup' = s.expire_dup
          /\ bucket_version' = s.bucket_version
          /\ segments' = s.segments
          /\ version_' = s.version_
          /\ deletion_count_' = s.deletion_count_
          /\ change_cb_' = s.change_cb_
          /\ trans_locks' = s.trans_locks
          /\ memory_budget_' = s.memory_budget_
          /\ bumped_items_' = s.bumped_items_
          /\ delivered' = s.delivered
          /\ retired' = s.retired
          /\ slots_stats' = s.slots_stats
          /\ obj_memory_usage' = s.obj_memory_usage
          /\ memory_usage_by_type' = s.memory_usage_by_type
          /\ watched_keys' = s.watched_keys
          /\ watched_dirty' = s.watched_dirty
          /\ events_' = s.events_
          /\ journal' = s.journal
          /\ notices' = s.notices
          /\ updater' = upd
          /\ touched' = IF upd = NoUpdater \/ updater = NoUpdater THEN FALSE
                        ELSE touched \/ s.erased # {} \/ s.inserted # {}
          /\ flush' = fl
  /\ UNCHANGED <<caching_mode_, expire_allowed_, is_replica, has_journal, loading, now, dchecks,
                 cluster_enabled,
                 cluster_vars>>

\* The caller keeps the returned AutoUpdater when it holds none; otherwise the
\* returned one is a temporary and runs at the end of the call.
Settle(r) == IF updater = NoUpdater THEN r.s ELSE Run(r.s, r.upd).s

Kept(r) == IF updater = NoUpdater THEN r.upd ELSE updater

Returned(op, k, status) == [NoLast EXCEPT !.op = op, !.key = k, !.status = status]

\* What a write-path handler reports: arg is 1 for a new entry.
Written(op, k, r) ==
  [Returned(op, k, r.status) EXCEPT !.arg = IF r.is_new THEN 1 ELSE 0,
                                    !.evicted = r.evicted]

\* The clock advances.
Tick ==
  /\ ~crashed
  /\ now < MaxTime
  /\ now' = now + 1
  /\ last' = [Returned("Tick", 0, "none") EXCEPT !.fresh = last.fresh,
                                                 !.persisted = last.persisted]
  /\ notices' = <<>>
  /\ events_' = NoEvents
  /\ journal' = <<>>
  /\ UNCHANGED <<prime, expire, bucket_version, segments, version_, deletion_count_,
                 change_cb_, trans_locks, memory_budget_, bumped_items_, caching_mode_,
                 expire_allowed_, is_replica, has_journal, dchecks, crashed, updater, touched,
                 flush, delivered, retired, cluster_enabled, slots_stats,
                 obj_memory_usage, memory_usage_by_type, watched_keys, watched_dirty,
                 loading, expire_dup,
                 cluster_vars>>

\* arg is the deadline of the entry looked up, NoExpire when it has none.
OpFindReadOnly(k) ==
  /\ ~crashed
  /\ \E r \in {FindInternal(SliceOf, now, k, NoType, "kReadStats")} :
       Commit(r.s, updater,
              [Returned("FindReadOnly", k, r.status) EXCEPT
                 !.arg = IF prime[k].present /\ prime[k].has_expire
                         THEN expire[k] ELSE NoExpire,
                 !.fresh = last.fresh,
                 !.persisted = last.persisted],
              FlushSeen(r.s))

\* FindReadOnly(cntx, key, req_obj_type); arg is 1 when the key was stored.
OpFindReadOnlyTyped(k, req_obj_type) ==
  /\ ~crashed
  /\ \E r \in {FindInternal(SliceOf, now, k, req_obj_type, "kReadStats")} :
       Commit(r.s, updater,
              [Returned("FindReadOnlyTyped", k, r.status) EXCEPT
                 !.arg = IF prime[k].present THEN 1 ELSE 0],
              FlushSeen(r.s))

OpFindMutable(k) ==
  /\ ~crashed
  /\ updater = NoUpdater
  /\ \E r \in {FindMutableInternal(SliceOf, now, k)} :
       Commit(r.s, r.upd, Returned("FindMutable", k, r.status), FlushSeen(r.s))

OpAddOrFind(k, victim) ==
  /\ ~crashed
  /\ \E r \in {AddOrFindInternal(SliceOf, now, k, victim)} :
       \E s \in {Settle(r)} :
         Commit(s, Kept(r), Written("AddOrFind", k, r), FlushSeen(s))

\* InsertNew does not say which of two entries of a key a later lookup finds: the
\* outcomes of a call that has added a second entry are the two orders.
LookupOrders(r, k) ==
  IF r.s.expire_dup[k] = NoExpire THEN {r}
  ELSE {r, [r EXCEPT !.s.expire[k] = r.s.expire_dup[k],
                     !.s.expire_dup[k] = r.s.expire[k]]}

\* A key that has two entries in the ExpireTable is not written again.
OpAddOrUpdate(k, obj, expire_at_ms, victim) ==
  /\ ~crashed
  /\ expire_dup[k] = NoExpire
  /\ \E r0 \in {AddOrUpdateInternal(SliceOf, now, k, obj, expire_at_ms, TRUE, victim)} :
       \E r \in LookupOrders(r0, k) :
         \E s \in {Settle(r)} :
           Commit(s, Kept(r),
                  [Written("AddOrUpdate", k, r) EXCEPT
                     !.obj = obj, !.deadline = expire_at_ms],
                  FlushSeen(s))

OpAddNew(k, obj, expire_at_ms, victim) ==
  /\ ~crashed
  /\ expire_dup[k] = NoExpire
  /\ \E r0 \in {AddNew(SliceOf, now, k, obj, expire_at_ms, victim)} :
       \E r \in LookupOrders(r0, k) :
         \E s \in {Settle(r)} :
           Commit(s, Kept(r), Written("AddNew", k, r), FlushSeen(s))

\* The caller writes the value through the handle it holds.
OpMutate(obj) ==
  /\ ~crashed
  /\ updater # NoUpdater
  /\ ~touched
  /\ prime[updater.key].present
  /\ prime[updater.key].val # obj
  /\ \E s \in {[SliceOf EXCEPT !.prime[updater.key].val = obj]} :
       Commit(s, updater, Returned("Mutate", updater.key, "OK"), FlushSeen(s))

\* The AutoUpdater goes out of scope; arg tells whether the table was touched since.
OpRun ==
  /\ ~crashed
  /\ updater # NoUpdater
  /\ \E r \in {Run(SliceOf, updater)} :
       Commit(r.s, NoUpdater,
              [Returned("Run", updater.key,
                        IF r.applied THEN "PostUpdate" ELSE "CheckFailed")
                 EXCEPT !.arg = IF touched THEN 1 ELSE 0,
                        !.fresh = IF /\ r.applied
                                     /\ last.op = "AddOrUpdate"
                                     /\ last.key = updater.key
                                     /\ last.status = "OK"
                                     /\ last.deadline = 0
                                  THEN [key |-> updater.key, obj |-> last.obj]
                                  ELSE NoFresh],
              FlushSeen(r.s))

OpDel(k) ==
  /\ ~crashed
  /\ deletion_count_ < MaxDeletions
  /\ prime[k].present
  /\ \E r \in {Del(SliceOf, k)} :
       Commit(r.s, updater, Returned("Del", k, "OK"), FlushSeen(r.s))

OpFlushDb ==
  /\ ~crashed
  /\ \E s \in {FlushDb(SliceOf)} :
       Commit(s, updater, Returned("FlushDb", 0, "OK"), FlushSeen(s))

\* OnCbFinish: the end of a transaction callback.
OpOnCbFinish ==
  /\ ~crashed
  /\ \E s \in {[SliceOf EXCEPT !.bumped_items_ = {}]} :
       Commit(s, updater, Returned("OnCbFinish", 0, "OK"), FlushSeen(s))

OpAddExpire(k, at) ==
  /\ ~crashed
  /\ prime[k].present
  /\ ~prime[k].has_expire
  /\ \E s \in {AddExpire(SliceOf, k, at)} :
       Commit(s, updater, Returned("AddExpire", k, "OK"), FlushSeen(s))

OpRemoveExpire(k) ==
  /\ ~crashed
  /\ prime[k].present
  /\ \E r \in {RemoveExpire(SliceOf, k)} :
       Commit(r.s, updater,
              Returned("RemoveExpire", k, IF r.res THEN "OK" ELSE "SKIPPED"),
              FlushSeen(r.s))

OpUpdateExpireAt(k, at) ==
  /\ ~crashed
  /\ prime[k].present
  /\ \E r \in {UpdateExpireAt(SliceOf, k, at)} :
       Commit(r.s, updater,
              Returned("UpdateExpireAt", k, IF r.res THEN "OK" ELSE "SKIPPED"),
              FlushSeen(r.s))

\* The caller passes the expire iterator its lookup returned.
OpUpdateExpire(k, params) ==
  /\ ~crashed
  /\ deletion_count_ < MaxDeletions
  /\ prime[k].present
  /\ \E r \in {UpdateExpire(SliceOf, now, k,
                            prime[k].has_expire /\ expire[k] # NoExpire, params)} :
       Commit(r.s, updater,
              [Returned("UpdateExpire", k, r.status) EXCEPT
                 !.arg = r.value,
                 !.params = params,
                 !.before = IF prime[k].has_expire THEN expire[k] ELSE NoExpire,
                 !.persisted =
                    IF params.persist
                    THEN [key |-> k,
                          before |-> IF prime[k].has_expire THEN expire[k] ELSE NoExpire]
                    ELSE NoPersisted],
              FlushSeen(r.s))

\* The caller marks the key of an entry sticky.
OpSetSticky(k) ==
  /\ ~crashed
  /\ prime[k].present
  /\ ~prime[k].sticky
  /\ \E s \in {[SliceOf EXCEPT !.prime[k].sticky = TRUE]} :
       Commit(s, updater, Returned("SetSticky", k, "OK"), FlushSeen(s))

OpAcquire(mode, k) ==
  /\ ~crashed
  /\ trans_locks[k][mode] < MaxLockRefs
  /\ \E r \in {Acquire(SliceOf, mode, k)} :
       Commit(r.s, updater,
              Returned("Acquire", k, IF r.res THEN "granted" ELSE "pending"),
              FlushSeen(r.s))

OpRelease(mode, k) ==
  /\ ~crashed
  /\ trans_locks[k][mode] > 0
  /\ \E s \in {Release(SliceOf, mode, k)} :
       Commit(s, updater, Returned("Release", k, "OK"), FlushSeen(s))

\* The keys Acquire and Release visit: args[0], args[key_step], ...
DistinctKeys(lock_args) ==
  {lock_args.args[i] : i \in {j \in 1..Len(lock_args.args) :
                                (j - 1) % lock_args.key_step = 0}}

\* A caller takes its locks; the call is recorded with trans_locks as it was.
OpAcquireLockArgs(mode, lock_args) ==
  /\ ~crashed
  /\ \E r \in {AcquireLockArgs(SliceOf, mode, lock_args)} :
       Commit(r.s, updater,
              [Returned("AcquireLockArgs", 0, IF r.res THEN "granted" ELSE "pending")
                 EXCEPT !.lock = [mode |-> mode, args |-> lock_args.args,
                                  key_step |-> lock_args.key_step, paired |-> FALSE,
                                  before |-> trans_locks]],
              FlushSeen(r.s))

\* A caller releases locks: those it holds in mode, or keys that have no entry.
OpReleaseLockArgs(mode, lock_args) ==
  /\ ~crashed
  /\ \A k \in DistinctKeys(lock_args) :
       trans_locks[k][mode] > 0 \/ ~trans_locks[k].present
  /\ \E s \in {ReleaseLockArgs(SliceOf, mode, lock_args)} :
       \E paired \in {/\ last.op = "AcquireLockArgs"
                      /\ last.lock.mode = mode
                      /\ last.lock.args = lock_args.args
                      /\ last.lock.key_step = lock_args.key_step} :
         Commit(s, updater,
                [Returned("ReleaseLockArgs", 0, "OK")
                   EXCEPT !.lock = [mode |-> mode, args |-> lock_args.args,
                                    key_step |-> lock_args.key_step, paired |-> paired,
                                    before |-> IF paired THEN last.lock.before
                                               ELSE trans_locks]],
                FlushSeen(s))

OpFreeMemWithEvictionStep(start, goal, max_eviction_per_hb, enable_heartbeat_eviction) ==
  /\ ~crashed
  /\ \E r \in {FreeMemWithEvictionStep(SliceOf, start, goal, max_eviction_per_hb,
                                       enable_heartbeat_eviction)} :
       Commit(r.s, updater,
              [Returned("FreeMemWithEvictionStep", 0, "OK") EXCEPT !.evicted = r.evicted],
              FlushSeen(r.s))

\* The table calls the policy for an insert of k that found its segment full;
\* victim is what the last slot of the chosen stash bucket holds.  arg is the
\* number returned.
OpEvict(k, victim, can_evict) ==
  /\ ~crashed
  /\ \E r \in {Evict(SliceOf, k, victim, can_evict)} :
       Commit(r.s, updater,
              [Returned("Evict", k, "OK") EXCEPT !.arg = r.res, !.evicted = r.evicted],
              FlushSeen(r.s))

\* WATCH of key k on connection conn.
OpRegisterWatchedKey(k, conn) ==
  /\ ~crashed
  /\ conn \notin watched_keys[k]
  /\ \E s \in {RegisterWatchedKey(SliceOf, k, conn)} :
       Commit(s, updater, Returned("RegisterWatchedKey", k, "OK"), FlushSeen(s))

\* arg is the version returned.
OpRegisterOnChange ==
  /\ ~crashed
  /\ Len(change_cb_) < MaxCallbacks
  /\ \E r \in {RegisterOnChange(SliceOf)} :
       Commit(r.s, updater,
              [Returned("RegisterOnChange", 0, "OK") EXCEPT !.arg = r.ver],
              FlushSeen(r.s))

OpUnregisterOnChange(id) ==
  /\ ~crashed
  /\ \E s \in {UnregisterOnChange(SliceOf, id)} :
       Commit(s, updater,
              [Returned("UnregisterOnChange", 0, "OK") EXCEPT !.arg = id],
              FlushSeen(s))

\* arg is upper_bound.
OpFlushChangeToEarlierCallbacks(k, upper_bound) ==
  /\ ~crashed
  /\ prime[k].present
  /\ \E s \in {FlushChangeToEarlierCallbacks(SliceOf, k, upper_bound)} :
       Commit(s, updater,
              [Returned("FlushChangeToEarlierCallbacks", k, "OK") EXCEPT
                 !.arg = upper_bound],
              FlushSeen(s))

\* FlushSlots: InvalidateSlotWatches, then the fiber is launched; its body has not
\* run yet.
OpFlushSlots(slot_ids) ==
  /\ ~crashed
  /\ flush.pc = "none"
  /\ flush' = [NoFlush EXCEPT !.pc = "spawned", !.slot_ids = slot_ids,
                              !.old = {k \in Keys : prime[k].present}]
  /\ watched_dirty' = InvalidateSlotWatches(SliceOf, slot_ids)
  /\ last' = Returned("FlushSlots", 0, "OK")
  /\ notices' = <<>>
  /\ events_' = NoEvents
  /\ journal' = <<>>
  /\ UNCHANGED <<prime, expire, bucket_version, segments, version_, deletion_count_,
                 change_cb_, trans_locks, memory_budget_, bumped_items_, caching_mode_,
                 expire_allowed_, is_replica, has_journal, now, dchecks, crashed, updater, touched,
                 delivered, retired, cluster_enabled, slots_stats, obj_memory_usage,
                 memory_usage_by_type, watched_keys, loading, expire_dup,
                 cluster_vars>>

\* What a run of the fiber up to a yield leaves in its record.
Flushed(r, next_version) ==
  [FlushSeen(r.s) EXCEPT !.pc = IF r.cursor = 0 THEN "done" ELSE "running",
                         !.next_version = next_version,
                         !.cursor = r.cursor,
                         !.deleted = @ \cup r.s.erased]

\* The fiber starts: it takes next_version and traverses up to its first yield.
OpFlushSlotsFb ==
  /\ ~crashed
  /\ flush.pc = "spawned"
  /\ \E r \in {FlushSlotsFb(SliceOf, flush.slot_ids)} :
       Commit(r.s, updater,
              Returned("FlushSlotsFb", 0, IF r.cursor = 0 THEN "done" ELSE "yield"),
              Flushed(r, version_))

\* The fiber resumes after a yield.
OpFlushSlotsFbResume ==
  /\ ~crashed
  /\ flush.pc = "running"
  /\ \E r \in {FlushLoop(SliceOf, flush.cursor, flush.slot_ids, flush.next_version)} :
       Commit(r.s, updater,
              Returned("FlushSlotsFb", 0, IF r.cursor = 0 THEN "done" ELSE "yield"),
              Flushed(r, flush.next_version))

(***************************************************************************)
(* The data path of one slice: lookups, upserts, deletion, lazy expiry and *)
(* the AutoUpdater, on a slice without memory limit and without callbacks. *)
(***************************************************************************)
InitSlice ==
  /\ prime = [k \in Keys |-> Absent]
  /\ expire = [k \in Keys |-> NoExpire]
  /\ expire_dup = [k \in Keys |-> NoExpire]
  /\ bucket_version = [b \in Buckets |-> 0]
  /\ segments = 1
  /\ version_ = 1
  /\ deletion_count_ = 0
  /\ change_cb_ = <<>>
  /\ trans_locks = [k \in Keys |-> NoLock]
  /\ bumped_items_ = {}
  /\ now = 0
  /\ crashed = FALSE
  /\ notices = <<>>
  /\ updater = NoUpdater
  /\ touched = FALSE
  /\ flush = NoFlush
  /\ delivered = [b \in Buckets |-> {}]
  /\ retired = {}
  /\ slots_stats = [sid \in Slots |-> [key_count |-> 0]]
  /\ obj_memory_usage = 0
  /\ memory_usage_by_type = [type \in ObjTypes |-> 0]
  /\ watched_keys = [k \in Keys |-> {}]
  /\ watched_dirty = [conn \in WatchConns |-> FALSE]
  /\ events_ = NoEvents
  /\ journal = <<>>
  /\ last = NoLast

Init ==
  /\ InitSlice
  /\ cluster_enabled = TRUE
  /\ memory_budget_ = Unlimited
  /\ caching_mode_ = FALSE
  /\ expire_allowed_ \in BOOLEAN
  /\ is_replica \in BOOLEAN
  /\ has_journal = TRUE
  /\ InitClusterIdle
  /\ loading = FALSE
  /\ dchecks \in BOOLEAN

\* Deadlines the callers of the data path ask for.
SomeDeadlines == {NoExpire, 1}

Next ==
  \/ Tick
  \/ \E k \in SmallKeys : OpFindReadOnly(k)
  \/ \E k \in SmallKeys : version_ < MaxVersion /\ OpFindMutable(k)
  \/ \E k \in SmallKeys : version_ < MaxVersion /\ OpAddOrFind(k, 0)
  \/ \E k \in SmallKeys, obj \in Vals, e \in SomeDeadlines :
       version_ < MaxVersion /\ OpAddOrUpdate(k, obj, e, 0)
  \/ \E obj \in Vals : OpMutate(obj)
  \/ OpRun
  \/ \E k \in SmallKeys : OpDel(k)

Spec == Init /\ [][Next]_vars

(***************************************************************************)
(* Claims about the data path.                                             *)
(***************************************************************************)

\* C1: whenever no AutoUpdater is pending, a stored value has its HasExpire bit
\* set exactly when the ExpireTable holds an entry for its key, and the
\* ExpireTable holds no entry for a key that is not stored.
C1_ExpireBitIffExpireEntry ==
  updater = NoUpdater =>
    \A k \in Keys :
      /\ prime[k].present => (prime[k].has_expire <=> expire[k] # NoExpire)
      /\ ~prime[k].present => expire[k] = NoExpire

\* C2, as stated: FindReadOnly of an entry with an expiration returns the entry
\* and leaves it in the table while the clock is before its deadline; from the
\* deadline on (a deadline equal to the clock counts as expired), with
\* expire_allowed_ set, it deletes the entry and returns KEY_NOTFOUND.
C2_ReadExpiresAtDeadline ==
  [][(last'.op = "FindReadOnly" /\ prime[last'.key].present
        /\ prime[last'.key].has_expire /\ ~crashed')
       => /\ now < expire[last'.key]
               => /\ last'.status = "OK"
                  /\ prime'[last'.key] = prime[last'.key]
                  /\ expire'[last'.key] = expire[last'.key]
          /\ (now >= expire[last'.key] /\ expire_allowed_)
               => /\ last'.status = "KEY_NOTFOUND"
                  /\ ~prime'[last'.key].present]_vars

\* C2, amended: the same, the deletion taking place only on a shard that is not
\* a replica, where it also erases the ExpireTable entry that held the deadline;
\* on a replica the entry is returned and left in the table.
C2_ReadExpiresAtDeadlineOnMaster ==
  [][(last'.op = "FindReadOnly" /\ prime[last'.key].present
        /\ prime[last'.key].has_expire /\ ~crashed')
       => /\ (now < expire[last'.key] \/ is_replica)
               => /\ last'.status = "OK"
                  /\ prime'[last'.key] = prime[last'.key]
                  /\ expire'[last'.key] = expire[last'.key]
          /\ (now >= expire[last'.key] /\ expire_allowed_ /\ ~is_replica)
               => /\ last'.status = "KEY_NOTFOUND"
                  /\ ~prime'[last'.key].present
                  /\ expire'[last'.key] = expire_dup[last'.key]
                  /\ expire_dup'[last'.key] = NoExpire]_vars

\* A read at the deadline itself has just deleted the entry.
C2_Witness ==
  /\ last.op = "FindReadOnly"
  /\ last.arg # NoExpire
  /\ now = last.arg
  /\ expire_allowed_
  /\ ~is_replica
  /\ last.status = "KEY_NOTFOUND"
  /\ ~prime[last.key].present

\* C3: an AutoUpdater that runs after an entry was inserted into or erased from
\* its database fails an assertion and does not apply PostUpdate.
C3_TouchedRunFails ==
  (last.op = "Run" /\ last.arg = 1) => last.status = "CheckFailed"

(***************************************************************************)
(* The flush of slots, interleaved with writes, reads and deletions.  The  *)
(* slice starts with NumPreloaded keys stored by AddOrUpdate, which fill   *)
(* the regular bucket with keys of slot 1 and the stash bucket with keys   *)
(* of slot 0.                                                              *)
(***************************************************************************)
EmptySlice ==
  [prime |-> [k \in Keys |-> Absent], expire |-> [k \in Keys |-> NoExpire],
   expire_dup |-> [k \in Keys |-> NoExpire],
   bucket_version |-> [b \in Buckets |-> 0], segments |-> 1, version_ |-> 1,
   deletion_count_ |-> 0, change_cb_ |-> <<>>, trans_locks |-> [k \in Keys |-> NoLock],
   memory_budget_ |-> Unlimited, bumped_items_ |-> {}, caching_mode_ |-> FALSE,
   expire_allowed_ |-> TRUE, is_replica |-> FALSE, has_journal |-> TRUE,
   loading |-> FALSE, dchecks |-> FALSE,
   crashed |-> FALSE, delivered |-> [b \in Buckets |-> {}], retired |-> {},
   cluster_enabled |-> TRUE, slots_stats |-> [sid \in Slots |-> [key_count |-> 0]],
   obj_memory_usage |-> 0, memory_usage_by_type |-> [type \in ObjTypes |-> 0],
   watched_keys |-> [k \in Keys |-> {}], watched_dirty |-> [conn \in WatchConns |-> FALSE],
   events_ |-> NoEvents, journal |-> <<>>, notices |-> <<>>,
   erased |-> {}, inserted |-> {}, written |-> {}]

\* The keys stored beforehand, in the order they were stored: those of slot 1
\* (the odd keys), then those of slot 0.
PreloadKey(i) ==
  IF 2 * i - 1 <= NumPreloaded THEN 2 * i - 1
  ELSE 2 * (i - ((NumPreloaded + 1) \div 2))

\* The slice after AddOrUpdate(PreloadKey(i), 1, 0) for i = 1..n, each AutoUpdater
\* run at once.
RECURSIVE Preloaded(_)
Preloaded(n) ==
  LET Stored(r) == Run(r.s, r.upd).s
  IN  IF n = 0 THEN EmptySlice
      ELSE Stored(AddOrUpdateInternal(Preloaded(n - 1), 0, PreloadKey(n), 1, NoExpire,
                                      TRUE, 0))

InitFlush ==
  /\ prime = Preloaded(NumPreloaded).prime
  /\ expire = Preloaded(NumPreloaded).expire
  /\ expire_dup = [k \in Keys |-> NoExpire]
  /\ bucket_version = Preloaded(NumPreloaded).bucket_version
  /\ segments = Preloaded(NumPreloaded).segments
  /\ version_ = Preloaded(NumPreloaded).version_
  /\ deletion_count_ = 0
  /\ change_cb_ = <<>>
  /\ trans_locks = [k \in Keys |-> NoLock]
  /\ bumped_items_ = {}
  /\ now = 0
  /\ crashed = FALSE
  /\ notices = <<>>
  /\ updater = NoUpdater
  /\ touched = FALSE
  /\ flush = NoFlush
  /\ delivered = [b \in Buckets |-> {}]
  /\ retired = {}
  /\ cluster_enabled = TRUE
  /\ slots_stats = Preloaded(NumPreloaded).slots_stats
  /\ obj_memory_usage = Preloaded(NumPreloaded).obj_memory_usage
  /\ memory_usage_by_type = Preloaded(NumPreloaded).memory_usage_by_type
  /\ watched_keys = [k \in Keys |-> {}]
  /\ watched_dirty = [conn \in WatchConns |-> FALSE]
  /\ events_ = NoEvents
  /\ journal = <<>>
  /\ last = NoLast
  /\ memory_budget_ = Unlimited
  /\ caching_mode_ = FALSE
  /\ expire_allowed_ = TRUE
  /\ is_replica = FALSE
  /\ has_journal = TRUE
  /\ InitClusterIdle
  /\ loading = FALSE
  /\ dchecks = FALSE

NextFlush ==
  \/ \E slot_ids \in (SUBSET Slots) \ {{}} : OpFlushSlots(slot_ids)
  \/ version_ < MaxFlushVersion /\ OpFlushSlotsFb
  \/ OpFlushSlotsFbResume
  \/ \E k \in FlushKeys, obj \in Vals :
       version_ < MaxFlushVersion /\ OpAddOrUpdate(k, obj, NoExpire, 0)
  \/ OpRun
  \/ \E k \in FlushKeys : OpFindReadOnly(k)
  \/ \E k \in FlushKeys : OpDel(k)

SpecFlush == InitFlush /\ [][NextFlush]_vars

\* C4: when the fiber of FlushSlots(S) has completed, every key whose slot is in S
\* and that was stored when FlushSlots was called has been deleted, whatever was
\* done to other keys in between.
C4_FlushDeletesOldKeys ==
  flush.pc = "done" => \A k \in flush.old : KeySlot(k) \notin flush.slot_ids

\* C5, as stated: the flush deletes no key whose slot is not in S and no key that
\* was inserted after FlushSlots was called.
C5_FlushSparesInsertedAfterCall ==
  [][last'.op = "FlushSlotsFb" =>
       \A k \in Keys :
         (prime[k].present /\ ~prime'[k].present) =>
           KeySlot(k) \in flush.slot_ids /\ k \notin flush.since_call]_vars

\* C5, amended: the flush deletes no key whose slot is not in S and no key that
\* was inserted after the fiber took next_version at the entry of FlushSlotsFb.
C5_FlushSparesInsertedAfterEntry ==
  [][last'.op = "FlushSlotsFb" =>
       \A k \in Keys :
         (prime[k].present /\ ~prime'[k].present) =>
           KeySlot(k) \in flush.slot_ids /\ k \notin flush.since_entry]_vars

\* A completed flush that deleted keys and spared a key of S inserted after the
\* fiber had taken next_version.
C5_Witness ==
  /\ flush.pc = "done"
  /\ flush.deleted # {}
  /\ \E k \in flush.since_entry : KeySlot(k) \in flush.slot_ids /\ prime[k].present

(***************************************************************************)
(* Eviction: a master in caching mode with a small memory budget, keys     *)
(* made sticky, intent locks taken and released, AddNew and the eviction   *)
(* step of the heartbeat.  The odd small keys are the ones made sticky,    *)
(* the even ones the ones locked.                                          *)
(***************************************************************************)
EvictBudget == 6

InitEvict ==
  /\ InitSlice
  /\ cluster_enabled = TRUE
  /\ memory_budget_ = EvictBudget
  /\ caching_mode_ = TRUE
  /\ expire_allowed_ = TRUE
  /\ is_replica = FALSE
  /\ has_journal = TRUE
  /\ InitClusterIdle
  /\ loading = FALSE
  /\ dchecks = FALSE

LockModes == {"shared", "exclusive"}

NextEvict ==
  \/ \E k \in SmallKeys : k % 2 = 1 /\ OpSetSticky(k)
  \/ \E mode \in LockModes, k \in SmallKeys : k % 2 = 0 /\ OpAcquire(mode, k)
  \/ \E mode \in LockModes, k \in SmallKeys : k % 2 = 0 /\ OpRelease(mode, k)
  \/ \E k \in Keys : \E victim \in LastSlotChoices(SliceOf, k) :
       version_ < MaxEvictVersion /\ OpAddNew(k, 1, NoExpire, victim)
  \/ \E start \in Keys, goal \in 1..kMaxEvictionPerHeartbeat :
       OpFreeMemWithEvictionStep(start, goal, kMaxEvictionPerHeartbeat, TRUE)

SpecEvict == InitEvict /\ [][NextEvict]_vars

\* C6: an insertion or a heartbeat eviction step deletes no key whose sticky bit
\* is set and no key that has an entry in trans_locks.
C6_EvictionSparesStickyAndLocked ==
  [][last'.op \in {"AddNew", "FreeMemWithEvictionStep"} =>
       \A k \in Keys :
         (k \in last'.evicted \/ (prime[k].present /\ ~prime'[k].present)) =>
           ~prime[k].sticky /\ ~Locked(SliceOf, k)]_vars

\* An eviction deleted a key while a sticky key and a locked key were stored.
C6_Witness ==
  /\ last.op \in {"AddNew", "FreeMemWithEvictionStep"}
  /\ last.evicted # {}
  /\ \E k \in Keys : prime[k].present /\ prime[k].sticky
  /\ \E k \in Keys : prime[k].present /\ Locked(SliceOf, k)

(***************************************************************************)
(* Change callbacks: registration, unregistration, the write path that     *)
(* notifies them and FlushChangeToEarlierCallbacks, called with the        *)
(* version of a callback that is or was registered as upper_bound.         *)
(***************************************************************************)
InitCb ==
  /\ InitSlice
  /\ cluster_enabled = TRUE
  /\ memory_budget_ = Unlimited
  /\ caching_mode_ = FALSE
  /\ expire_allowed_ = TRUE
  /\ is_replica = FALSE
  /\ has_journal = TRUE
  /\ InitClusterIdle
  /\ loading = FALSE
  /\ dchecks \in BOOLEAN

KnownVersions == CallbackVersions(SliceOf) \cup retired

NextCb ==
  \/ version_ < MaxCbVersion /\ OpRegisterOnChange
  \/ \E id \in KnownVersions : OpUnregisterOnChange(id)
  \/ \E k \in SmallKeys, upper_bound \in KnownVersions :
       OpFlushChangeToEarlierCallbacks(k, upper_bound)
  \/ \E k \in SmallKeys : version_ < MaxCbVersion /\ OpFindMutable(k)
  \/ \E k \in SmallKeys : version_ < MaxCbVersion /\ OpAddOrFind(k, 0)
  \/ \E k \in SmallKeys, obj \in Vals :
       version_ < MaxCbVersion /\ OpAddOrUpdate(k, obj, NoExpire, 0)
  \/ \E obj \in Vals : OpMutate(obj)
  \/ OpRun

SpecCb == InitCb /\ [][NextCb]_vars

\* The versions of the callbacks a sequence of notices went to, in order.
NoticedVersions(ns) == [i \in 1..Len(ns) |-> ns[i].cb]

RECURSIVE LowToHigh(_)
LowToHigh(S) ==
  IF S = {} THEN <<>>
  ELSE LET low == CHOOSE x \in S : \A y \in S : x <= y
       IN  <<low>> \o LowToHigh(S \ {low})

StrictlyIncreasing(seq) == \A i, j \in 1..Len(seq) : i < j => seq[i] < seq[j]

\* The notices all registered callbacks get for key k, in the order of change_cb_,
\* each with the entry as it was before the step.
NoticesToAll(kind, k) ==
  [i \in 1..Len(change_cb_) |->
     [cb |-> change_cb_[i], kind |-> kind, key |-> k, present |-> prime[k].present,
      val |-> prime[k].val]]

\* C7: after PreUpdate has delivered a mutation notice for a bucket, the version
\* of the bucket is greater than the version of every callback that received it,
\* and a later FlushChangeToEarlierCallbacks on the bucket notifies none of them.
C7_NoRenotification ==
  [][/\ \A b \in Buckets : \A v \in delivered'[b] : bucket_version'[b] > v
     /\ (last'.op = "FlushChangeToEarlierCallbacks" /\ ~crashed') =>
          \A i \in 1..Len(notices') :
            notices'[i].cb \notin delivered[prime[last'.key].bucket]]_vars

\* FlushChangeToEarlierCallbacks notified a later callback and skipped one that
\* is still registered and had received the mutation notice of the bucket.
C7_Witness ==
  /\ last.op = "FlushChangeToEarlierCallbacks"
  /\ notices # <<>>
  /\ delivered[prime[last.key].bucket] \cap CallbackVersions(SliceOf) # {}

\* C8: FlushChangeToEarlierCallbacks(it, upper_bound) invokes exactly the callbacks
\* with bucket_version(it) < version < upper_bound, once each in ascending order,
\* also when the callback registered as upper_bound has been unregistered.
C8_FlushInvokesExactlyEarlier ==
  [][last'.op = "FlushChangeToEarlierCallbacks" =>
       /\ ~crashed'
       /\ NoticedVersions(notices') =
            LowToHigh({v \in CallbackVersions(SliceOf) :
                         /\ bucket_version[prime[last'.key].bucket] < v
                         /\ v < last'.arg})]_vars

C10_RegistrationsOrdered ==
  [][~crashed' =>
       /\ StrictlyIncreasing(change_cb_')
       /\ \A b \in Buckets : bucket_version'[b] < version_'
       /\ \A v \in CallbackVersions(SliceOf) \cup retired : v < version_
       /\ IF last'.op = "RegisterOnChange"
          THEN /\ last'.arg = version_
               /\ version_' > version_
               /\ change_cb_' = Append(change_cb_, last'.arg)
          ELSE IF last'.op = "UnregisterOnChange"
          THEN change_cb_' = LowToHigh(CallbackVersions(SliceOf) \ {last'.arg})
          ELSE change_cb_' = change_cb_]_vars

\* A registration after an earlier callback was unregistered, next to one that
\* is still registered.
C10_Witness ==
  /\ last.op = "RegisterOnChange"
  /\ retired # {}
  /\ Len(change_cb_) >= 2

(***************************************************************************)
(* Statistics: the per-slot key counts, the memory accounting and the      *)
(* lookup counters, with cluster mode on, under inserts, typed reads,       *)
(* updates through mutable handles, Del, lazy expiry, eviction, FlushSlots *)
(* and FlushDb.  The slice                                                 *)
(* is a master in caching mode that starts with NumStatsPreloaded keys and *)
(* a budget that does not let the table grow.  The caller follows the      *)
(* protocol of the AutoUpdater: while it holds one it only writes the      *)
(* value and runs the updater; FlushDb is a transaction of its own, called *)
(* after OnCbFinish.                                                       *)
(***************************************************************************)
MaxStatsVersion == 7
StatsBudget == 2
NumStatsPreloaded == 3

InitStats ==
  /\ prime = Preloaded(NumStatsPreloaded).prime
  /\ expire = Preloaded(NumStatsPreloaded).expire
  /\ expire_dup = [k \in Keys |-> NoExpire]
  /\ bucket_version = Preloaded(NumStatsPreloaded).bucket_version
  /\ segments = Preloaded(NumStatsPreloaded).segments
  /\ version_ = Preloaded(NumStatsPreloaded).version_
  /\ slots_stats = Preloaded(NumStatsPreloaded).slots_stats
  /\ obj_memory_usage = Preloaded(NumStatsPreloaded).obj_memory_usage
  /\ memory_usage_by_type = Preloaded(NumStatsPreloaded).memory_usage_by_type
  /\ watched_keys = [k \in Keys |-> {}]
  /\ watched_dirty = [conn \in WatchConns |-> FALSE]
  /\ deletion_count_ = 0
  /\ change_cb_ = <<>>
  /\ trans_locks = [k \in Keys |-> NoLock]
  /\ bumped_items_ = {}
  /\ now = 0
  /\ crashed = FALSE
  /\ notices = <<>>
  /\ updater = NoUpdater
  /\ touched = FALSE
  /\ flush = NoFlush
  /\ delivered = [b \in Buckets |-> {}]
  /\ retired = {}
  /\ events_ = NoEvents
  /\ journal = <<>>
  /\ last = NoLast
  /\ cluster_enabled = TRUE
  /\ memory_budget_ = StatsBudget
  /\ caching_mode_ = TRUE
  /\ expire_allowed_ = TRUE
  /\ is_replica = FALSE
  /\ has_journal = TRUE
  /\ InitClusterIdle
  /\ loading = FALSE
  /\ dchecks \in BOOLEAN

\* The key the callers read and delete, the keys they write, the slots they flush.
StatsReadKeys == {NumKeys - 1}
StatsWriteKeys == {NumKeys - 1, NumKeys}
StatsSlots == {{1}}

NextStats ==
  \/ Tick
  \/ \E k \in StatsReadKeys, req_obj_type \in ObjTypes :
       updater = NoUpdater /\ OpFindReadOnlyTyped(k, req_obj_type)
  \/ \E k \in StatsWriteKeys :
       updater = NoUpdater /\ version_ < MaxStatsVersion /\ OpFindMutable(k)
  \/ \E k \in StatsWriteKeys, e \in SomeDeadlines :
       \E victim \in LastSlotChoices(SliceOf, k) :
         updater = NoUpdater /\ version_ < MaxStatsVersion
           /\ OpAddOrUpdate(k, MaxVal, e, victim)
  \/ \E obj \in Vals : OpMutate(obj)
  \/ OpRun
  \/ \E k \in StatsReadKeys : updater = NoUpdater /\ OpDel(k)
  \/ updater = NoUpdater /\ OpOnCbFinish
  \/ \E slot_ids \in StatsSlots : updater = NoUpdater /\ OpFlushSlots(slot_ids)
  \/ updater = NoUpdater /\ version_ < MaxStatsVersion /\ OpFlushSlotsFb
  \/ updater = NoUpdater /\ OpFlushSlotsFbResume
  \/ updater = NoUpdater /\ bumped_items_ = {} /\ OpFlushDb

SpecStats == InitStats /\ [][NextStats]_vars

RECURSIVE SumKeyCount(_)
SumKeyCount(n) ==
  IF n = 0 THEN 0 ELSE slots_stats[n - 1].key_count + SumKeyCount(n - 1)

\* C11: with cluster mode on, the key counts of the slots add up to the number of
\* entries of the PrimeTable, in every state.
C11_KeyCountsSumToSize ==
  cluster_enabled => SumKeyCount(NumSlots) = DbSize(SliceOf)

\* Cluster mode is on, a key was deleted by Del and an insert has just evicted
\* another, with entries left in the table.
C11_Witness ==
  /\ cluster_enabled
  /\ deletion_count_ > 0
  /\ last.op = "AddOrUpdate"
  /\ last.evicted # {}
  /\ DbSize(SliceOf) > 0

\* The heap bytes of the keys and values of the first n keys.
RECURSIVE HeapBytes(_)
HeapBytes(n) ==
  IF n = 0 THEN 0
  ELSE HeapBytes(n - 1)
         + (IF prime[n].present THEN KeyMallocUsed(n) + MallocUsed(prime[n].val) ELSE 0)

C13_WrongTypeCountsNoMiss ==
  (last.op = "FindReadOnlyTyped" /\ last.status = "WRONG_TYPE") =>
    /\ events_.misses = 0
    /\ events_.hits = 0
    /\ prime[last.key].present


\* C21: in caching mode a read that finds a key bumps it, adding one to
\* events_.bumpups, only when the key is not yet in bumped_items_, that is, when it
\* is the first read of the key since OnCbFinish.
C21_OneBumpPerCommand ==
  [][(caching_mode_ /\ last'.op = "FindReadOnlyTyped" /\ last'.status = "OK")
     => events_'.bumpups = IF last'.key \in bumped_items_ THEN 0 ELSE 1]_vars

\* The deadline of key k has passed and the slice expires keys.
Due(k) ==
  /\ prime[k].present
  /\ prime[k].has_expire
  /\ now >= expire[k]
  /\ ~is_replica
  /\ expire_allowed_

\* The keys of the journal entries jn, in the order they were written.
EntryKeys(jn) == [i \in 1..Len(jn) |-> jn[i].key]

\* C22: on a slice with a journal, a read that finds the deadline of its key passed
\* adds one to events_.expired_keys and writes one EXPIRED DEL entry for the key,
\* and a read of an absent key adds and writes nothing; an insert that sweeps its
\* bucket counts one expired key and writes one entry for every key it expires.
C22_ExpiryCountedAndJournaledOnce ==
  [][/\ (has_journal /\ last'.op \in {"FindReadOnly", "FindReadOnlyTyped"}
          /\ last'.status # "WRONG_TYPE" /\ ~crashed')
        => IF Due(last'.key)
           THEN /\ last'.status = "KEY_NOTFOUND"
                /\ events_'.expired_keys = 1
                /\ EntryKeys(journal') = <<last'.key>>
                /\ journal'[1].op = "EXPIRED"
                /\ journal'[1].cmd = "DEL"
           ELSE /\ events_'.expired_keys = 0
                /\ journal' = <<>>
     /\ (has_journal /\ last'.op \in {"FindMutable", "AddOrFind", "AddOrUpdate"}
          /\ ~crashed')
        => /\ events_'.expired_keys + Cardinality(last'.evicted) = Len(journal')
           /\ \A i, j \in 1..Len(journal') : journal'[i].key = journal'[j].key => i = j
           /\ \A i \in 1..Len(journal') :
                journal'[i].key \in last'.evicted \/ Due(journal'[i].key)]_vars

\* A read has found the deadline of its key passed, counted one expired key and
\* written one entry for it.
C22_Witness ==
  /\ has_journal
  /\ ~crashed
  /\ last.op = "FindReadOnly"
  /\ last.status = "KEY_NOTFOUND"
  /\ events_.expired_keys = 1
  /\ Len(journal) = 1
  /\ journal[1].key = last.key

\* C23: every journal entry that records a deletion was written when the deletion
\* had been applied to the PrimeTable: the key of the entry was among the keys the
\* handler had erased by then.
C23_JournaledAfterDeletion ==
  \A i \in 1..Len(journal) : journal[i].key \in journal[i].erased

\* C38: every element of bumped_items_ is a key stored in the PrimeTable: no
\* operation that removes a key (Del, lazy expiry, garbage collection or eviction
\* during an insert, FlushSlots) leaves it in bumped_items_.
C38_BumpedItemsAreStored == \A k \in bumped_items_ : prime[k].present

\* The heap bytes of the keys and values of type type among the first n keys; a
\* key is a string.
RECURSIVE TypeBytes(_, _)
TypeBytes(type, n) ==
  IF n = 0 THEN 0
  ELSE TypeBytes(type, n - 1)
         + (IF prime[n].present /\ KeyObjType = type THEN KeyMallocUsed(n) ELSE 0)
         + (IF prime[n].present /\ ObjType(prime[n].val) = type
            THEN MallocUsed(prime[n].val) ELSE 0)

\* C40: whenever no AutoUpdater is pending, memory_usage_by_type[t] is the sum of
\* the heap sizes of the stored keys and values of type t, for every type t, and
\* obj_memory_usage is the sum over all stored entries, after any inserts, value
\* replacements (also by a value of another type) and deletions.
C40_MemoryUsageByTypeExact ==
  (updater = NoUpdater /\ ~crashed) =>
    /\ \A type \in ObjTypes : memory_usage_by_type[type] = TypeBytes(type, NumKeys)
    /\ obj_memory_usage = HeapBytes(NumKeys)
(***************************************************************************)
(* The memory limit on insertion: AddOrFind and AddOrUpdate of two keys,   *)
(* one of them the empty key, into a table that holds NumOomPreloaded keys *)
(* with a budget of at most one key, on a master or a replica, loading a   *)
(* snapshot or not, in cache mode or not.                                  *)
(***************************************************************************)
MaxOomVersion == 7
OomBudgets == {0, 1}
NumOomPreloaded == 3
OomKeys == {NumKeys - 1, NumKeys}

InitOom ==
  /\ prime = Preloaded(NumOomPreloaded).prime
  /\ expire = Preloaded(NumOomPreloaded).expire
  /\ expire_dup = [k \in Keys |-> NoExpire]
  /\ bucket_version = Preloaded(NumOomPreloaded).bucket_version
  /\ segments = Preloaded(NumOomPreloaded).segments
  /\ version_ = Preloaded(NumOomPreloaded).version_
  /\ slots_stats = Preloaded(NumOomPreloaded).slots_stats
  /\ obj_memory_usage = Preloaded(NumOomPreloaded).obj_memory_usage
  /\ memory_usage_by_type = Preloaded(NumOomPreloaded).memory_usage_by_type
  /\ watched_keys = [k \in Keys |-> {}]
  /\ watched_dirty = [conn \in WatchConns |-> FALSE]
  /\ deletion_count_ = 0
  /\ change_cb_ = <<>>
  /\ trans_locks = [k \in Keys |-> NoLock]
  /\ bumped_items_ = {}
  /\ now = 0
  /\ crashed = FALSE
  /\ notices = <<>>
  /\ updater = NoUpdater
  /\ touched = FALSE
  /\ flush = NoFlush
  /\ delivered = [b \in Buckets |-> {}]
  /\ retired = {}
  /\ events_ = NoEvents
  /\ journal = <<>>
  /\ last = NoLast
  /\ cluster_enabled = TRUE
  /\ memory_budget_ \in OomBudgets
  /\ caching_mode_ \in BOOLEAN
  /\ expire_allowed_ = TRUE
  /\ is_replica \in BOOLEAN
  /\ has_journal = TRUE
  /\ InitClusterIdle
  /\ loading \in BOOLEAN
  /\ dchecks = FALSE

NextOom ==
  \/ \E k \in OomKeys : \E victim \in LastSlotChoices(SliceOf, k) :
       version_ < MaxOomVersion /\ OpAddOrFind(k, victim)
  \/ \E k \in OomKeys : \E victim \in LastSlotChoices(SliceOf, k) :
       version_ < MaxOomVersion /\ OpAddOrUpdate(k, 1, NoExpire, victim)
  \/ OpRun
  \/ \E k \in OomKeys : OpDel(k)

SpecOom == InitOom /\ [][NextOom]_vars

\* An insert of the absent key last'.key is made with memory_budget_ at 0.
InsertAtZeroBudget ==
  /\ last'.op \in {"AddOrFind", "AddOrUpdate"}
  /\ ~crashed'
  /\ ~prime[last'.key].present
  /\ memory_budget_ = 0

\* The insert is turned down: OUT_OF_MEMORY, one rejection counted, no entry.
Rejected ==
  /\ last'.status = "OUT_OF_MEMORY"
  /\ events_'.insertion_rejections = 1
  /\ ~prime'[last'.key].present

\* The insert went to the table with the eviction policy: the key is stored, or
\* the segment had no room for it and the insert ended in bad_alloc.
WentThroughPolicy ==
  \/ last'.status = "OK" /\ prime'[last'.key].present
  \/ Rejected /\ TargetBucket(SliceOf, last'.key) = NoBucket

\* C14 as stated: without cache mode an insert of an absent key at memory_budget_
\* = 0 is rejected with OUT_OF_MEMORY and counted in insertion_rejections; in cache
\* mode it is not rejected up front and goes through the eviction policy.
C14_ZeroBudgetRejects ==
  [][InsertAtZeroBudget =>
       IF caching_mode_ THEN WentThroughPolicy ELSE Rejected]_vars

\* C14, amended: the rejection up front is that of a master that is not loading,
\* for a key that is not empty; in cache mode, on a replica, while loading and for
\* the empty key the insert goes through the eviction policy.
C14_ZeroBudgetRejectsOnMaster ==
  [][InsertAtZeroBudget =>
       IF ~caching_mode_ /\ ~is_replica /\ ~loading /\ Size(last'.key) > 0
       THEN Rejected ELSE WentThroughPolicy]_vars

\* A master that is not loading and not in cache mode has rejected an insert with
\* its budget at 0.
C14_Witness ==
  /\ last.op \in {"AddOrFind", "AddOrUpdate"}
  /\ last.status = "OUT_OF_MEMORY"
  /\ events_.insertion_rejections = 1
  /\ memory_budget_ = 0
  /\ ~caching_mode_ /\ ~is_replica /\ ~loading
  /\ ~prime[last.key].present


\* C35: a successful insertion of a new key takes the size of the key, and the size
\* of a segment for every split, off memory_budget_, and a deletion adds the size of
\* the key back, so that an insert followed by a delete of the same key (without a
\* split) leaves memory_budget_ as it was.
C35_BudgetDebitedAndCredited ==
  [][/\ (last'.op \in {"AddOrFind", "AddOrUpdate"} /\ last'.status = "OK"
           /\ last'.arg = 1 /\ ~crashed')
          => memory_budget_' = memory_budget_ - Size(last'.key)
                                 - kSegBytes * (segments' - segments)
     /\ (last'.op = "Del" /\ ~crashed')
          => memory_budget_' = memory_budget_ + Size(last'.key)]_vars

(***************************************************************************)
(* Expirations set and dropped by AddOrUpdate with and without a deadline, *)
(* on a master and on a replica, as time passes.                           *)
(***************************************************************************)
MaxExpireVersion == 6
ExpireKeys == {1, 2}

InitExpire ==
  /\ InitSlice
  /\ cluster_enabled = TRUE
  /\ memory_budget_ = Unlimited
  /\ caching_mode_ = FALSE
  /\ expire_allowed_ = TRUE
  /\ is_replica \in BOOLEAN
  /\ has_journal = TRUE
  /\ InitClusterIdle
  /\ loading = FALSE
  /\ dchecks \in BOOLEAN

NextExpire ==
  \/ Tick
  \/ \E k \in ExpireKeys : updater = NoUpdater /\ OpFindReadOnly(k)
  \/ \E k \in ExpireKeys, obj \in Vals, e \in {NoExpire} \cup Deadlines :
       updater = NoUpdater /\ version_ < MaxExpireVersion /\ OpAddOrUpdate(k, obj, e, 0)
  \/ OpRun

SpecExpire == InitExpire /\ [][NextExpire]_vars

\* C15: once AddOrUpdate with a deadline has succeeded, the key holds the value,
\* its expire flag is set and a lookup in the ExpireTable gives that deadline.
C15_AddOrUpdateSetsDeadline ==
  (last.op = "AddOrUpdate" /\ last.status = "OK" /\ last.deadline # NoExpire) =>
    /\ prime[last.key].present
    /\ prime[last.key].val = last.obj
    /\ prime[last.key].has_expire
    /\ expire[last.key] = last.deadline

\* C16: FindReadOnly of a key, after AddOrUpdate without deadline has stored a value
\* under it and the AutoUpdater of that call has run, returns the entry with that
\* value, however much time has passed in between.
C16_ReadReturnsStoredValue ==
  [][(/\ last.fresh.key # 0
      /\ last'.op = "FindReadOnly"
      /\ last'.key = last.fresh.key)
     => (/\ last'.status = "OK"
         /\ ~crashed'
         /\ prime'[last.fresh.key].present
         /\ prime'[last.fresh.key].val = last.fresh.obj)]_vars

\* On a master, a read has found the value of an AddOrUpdate without deadline after
\* the deadline the key had before that call has passed.
C16_Witness ==
  /\ ~is_replica
  /\ last.op = "FindReadOnly"
  /\ last.status = "OK"
  /\ last.fresh.key = last.key
  /\ prime[last.key].val = last.fresh.obj
  /\ expire[last.key] # NoExpire
  /\ expire[last.key] <= now

(***************************************************************************)
(* UpdateExpire with every combination of its parameters, on a key that    *)
(* AddOrUpdate has stored with or without a deadline, as time passes.      *)
(***************************************************************************)
MaxParamsVersion == 4
ParamKeys == {1}
ParamValues == {0, 1, 2}
ExpireFlags == {"NX", "XX", "GT", "LT"}

\* The flag combinations callers pass: none, each flag alone, and pairs of flags.
ExpireOptions == {{}, {"NX"}, {"XX"}, {"GT"}, {"LT"}, {"GT", "LT"}, {"NX", "XX"}, {"XX", "GT"}}

PersistOptions == {{}, {"NX"}, {"XX", "GT"}}

ExpireParams ==
  [value : ParamValues, unit : {"SEC", "MSEC"}, absolute : BOOLEAN, persist : {FALSE},
   expire_options : ExpireOptions]
  \cup
  [value : {0, 2}, unit : {"SEC", "MSEC"}, absolute : {FALSE}, persist : {TRUE},
   expire_options : PersistOptions]


InitParams ==
  /\ InitSlice
  /\ cluster_enabled = TRUE
  /\ memory_budget_ = Unlimited
  /\ caching_mode_ = FALSE
  /\ expire_allowed_ = TRUE
  /\ is_replica = FALSE
  /\ has_journal = TRUE
  /\ InitClusterIdle
  /\ loading = FALSE
  /\ dchecks \in BOOLEAN

NextParams ==
  \/ Tick
  \/ \E k \in ParamKeys : updater = NoUpdater /\ OpFindReadOnly(k)
  \/ \E k \in ParamKeys, e \in {NoExpire} \cup Deadlines :
       updater = NoUpdater /\ version_ < MaxParamsVersion /\ OpAddOrUpdate(k, 1, e, 0)
  \/ OpRun
  \/ \E k \in ParamKeys, params \in ExpireParams :
       updater = NoUpdater /\ OpUpdateExpire(k, params)

SpecParams == InitParams /\ [][NextParams]_vars

RelMsec(params) == Calculate(params, now)[1]

AbsMsec(params) == Calculate(params, now)[2]

\* C18: UpdateExpire without persist whose relative time is <= 0 returns -1 and
\* leaves neither the key in the PrimeTable nor an entry of it in the ExpireTable,
\* whatever flags it is given and whether or not the key had an expiration.
C18_PastDeadlineDeletes ==
  [][(/\ last'.op = "UpdateExpire"
      /\ ~last'.params.persist
      /\ RelMsec(last'.params) <= 0)
     => (/\ ~crashed'
         /\ last'.status = "OK"
         /\ last'.arg = 0 - 1
         /\ ~prime'[last'.key].present
         /\ expire'[last'.key] = NoExpire)]_vars

\* A flag of the parameters refuses the update of key k in the current state.
Refused(k, params) ==
  LET opts == params.expire_options
      has == prime[k].has_expire
      new == AbsMsec(params)
  IN  \/ "NX" \in opts /\ has
      \/ "XX" \in opts /\ ~has
      \/ "GT" \in opts /\ has /\ expire[k] >= new
      \/ "LT" \in opts /\ has /\ expire[k] <= new

\* The deadline of the parameters lies in the future and within the limit.
FutureInRange(params) ==
  /\ ~params.persist
  /\ RelMsec(params) > 0
  /\ RelMsec(params) <= kMaxExpireDeadlineSec * kMsPerSec

\* C19: UpdateExpire with a future deadline within the limit returns SKIPPED and
\* leaves both tables as they are exactly when a flag refuses the update; in every
\* other case the key's deadline becomes the new absolute deadline, which is
\* returned.
C19_FlagsDecideUpdate ==
  [][(last'.op = "UpdateExpire" /\ FutureInRange(last'.params))
     => IF Refused(last'.key, last'.params)
        THEN /\ last'.status = "SKIPPED"
             /\ prime' = prime
             /\ expire' = expire
             /\ expire_dup' = expire_dup
        ELSE /\ ~crashed'
             /\ last'.status = "OK"
             /\ last'.arg = AbsMsec(last'.params)
             /\ prime'[last'.key].present
             /\ prime'[last'.key].has_expire
             /\ expire'[last'.key] = AbsMsec(last'.params)]_vars

\* C20: UpdateExpire without persist whose relative time exceeds
\* kMaxExpireDeadlineSec * 1000 returns OUT_OF_RANGE and leaves the PrimeTable and
\* the ExpireTable, and with them the key, its value and its expiration, unchanged.
C20_BeyondLimitOutOfRange ==
  [][(/\ last'.op = "UpdateExpire"
      /\ ~last'.params.persist
      /\ RelMsec(last'.params) > kMaxExpireDeadlineSec * kMsPerSec)
     => (/\ ~crashed'
         /\ last'.status = "OUT_OF_RANGE"
         /\ prime' = prime
         /\ expire' = expire
         /\ expire_dup' = expire_dup)]_vars

\* UpdateExpire has returned OUT_OF_RANGE for a key that has an expiration, given
\* flags that would not have refused the update.
C20_Witness ==
  /\ last.op = "UpdateExpire"
  /\ last.status = "OUT_OF_RANGE"
  /\ last.params.expire_options = {}
  /\ prime[last.key].present
  /\ prime[last.key].has_expire
  /\ last.before # NoExpire
  /\ expire[last.key] = last.before

(***************************************************************************)
(* Transaction locks taken and released for whole argument lists: keys     *)
(* repeated in the list, key_step 1 and 2, both modes, callers that hold   *)
(* up to MaxArgRefs references of a mode on a key, and reads in between.    *)
(***************************************************************************)
MaxArgRefs == 2
MaxArgs == 3
LockKeys == {1, 2}

LockArgs ==
  [args : UNION {[1..n -> LockKeys] : n \in 0..MaxArgs}, key_step : {1, 2}]

InitLock ==
  /\ InitSlice
  /\ cluster_enabled = TRUE
  /\ memory_budget_ = Unlimited
  /\ caching_mode_ = FALSE
  /\ expire_allowed_ = TRUE
  /\ is_replica = FALSE
  /\ has_journal = TRUE
  /\ InitClusterIdle
  /\ loading = FALSE
  /\ dchecks = FALSE

NextLock ==
  \/ \E k \in LockKeys : OpFindReadOnly(k)
  \/ \E mode \in LockModes, lock_args \in LockArgs :
       /\ \A k \in DistinctKeys(lock_args) : trans_locks[k][mode] < MaxArgRefs
       /\ OpAcquireLockArgs(mode, lock_args)
  \/ \E mode \in LockModes, lock_args \in LockArgs : OpReleaseLockArgs(mode, lock_args)

SpecLock == InitLock /\ [][NextLock]_vars

OtherMode(mode) == IF mode = "shared" THEN "exclusive" ELSE "shared"

\* The KeyLockArgs of the call that l records.
CallArgs(l) == [args |-> l.lock.args, key_step |-> l.lock.key_step]

C25_ReleaseUndoesAcquire ==
  [][/\ (last'.op = "ReleaseLockArgs" /\ ~crashed') =>
          /\ \A k \in Keys :
               /\ trans_locks'[k][last'.lock.mode]
                    = trans_locks[k][last'.lock.mode]
                        - IF k \in DistinctKeys(CallArgs(last')) THEN 1 ELSE 0
               /\ trans_locks'[k][OtherMode(last'.lock.mode)]
                    = trans_locks[k][OtherMode(last'.lock.mode)]
          /\ last'.lock.paired => trans_locks' = last'.lock.before
     /\ \A k \in Keys : trans_locks'[k].present = ~IsFree(trans_locks'[k])]_vars

\* A Release has undone the Acquire before it: of its two keys one has lost its
\* entry and the other still holds references.
C25_Witness ==
  /\ last.op = "ReleaseLockArgs"
  /\ ~crashed
  /\ last.lock.paired
  /\ Cardinality(DistinctKeys(CallArgs(last))) = 2
  /\ \E k \in LockKeys : ~trans_locks[k].present
  /\ \E k \in LockKeys : trans_locks[k].present
  /\ trans_locks = last.lock.before

(***************************************************************************)
(* The cluster family: the per-thread config pointer, DFLYCLUSTER CONFIG,  *)
(* blocked commands, and one outgoing slot migration with a flow per       *)
(* shard.  A slice is kept as the set of keys it holds.                    *)
(***************************************************************************)
ClusterKeys == 1..NumClusterKeys

\* The shard that owns a key, and the thread a connection runs on.
ShardOf(k) == (k \div 2) % NumThreads
ThreadOf(c) == c % NumThreads

\* ClusterConfig::IsMySlot and GetOwnedSlots.
IsMySlot(cfg, id) == id \in cfg.owned
GetOwnedSlots(cfg) == cfg.owned

GetDeletedSlots(is_first_config, before, after) ==
  {id \in Slots : (id \in before \/ is_first_config) /\ id \notin after}

ContainsAllSlots(sset, slots) == slots \subseteq sset

\* The filter that cancels a blocked command when all of its keys have moved.
blocking_filter_all(new_config, keys) ==
  IF \A k \in keys : ~IsMySlot(new_config, KeySlot(k)) THEN "KEY_MOVED" ELSE "OK"

\* The filter DflyClusterConfig hands to CancelBlockingOnThread.
blocking_filter(new_config, keys) ==
  IF \E k \in keys : ~IsMySlot(new_config, KeySlot(k)) THEN "KEY_MOVED" ELSE "OK"

\* A lock_guard that does not wait for the mutex.
lock_guard_free(mu) == TRUE

\* lock_guard gu(set_config_mu): the caller goes on once nobody holds the mutex.
lock_guard(mu) == mu = 0

\* RestoreStreamer::IsSnapshotFinished: every key of the snapshot was emitted.
IsSnapshotFinished(flow) == flow.todo = {}

\* SliceSlotMigration::GetState.
FlowState(flow) ==
  IF flow.state_ = "C_FULL_SYNC" /\ IsSnapshotFinished(flow) THEN "C_STABLE_SYNC"
  ELSE flow.state_

\* The order of the MigrationState enumerators.
StateRank(st) ==
  CASE st = "C_NO_STATE" -> 0
    [] st = "C_CONNECTING" -> 1
    [] st = "C_FULL_SYNC" -> 2
    [] st = "C_STABLE_SYNC" -> 3

MinState(a, b) == IF StateRank(b) < StateRank(a) THEN b ELSE a

\* OutgoingMigration::GetState: the loop over slot_migrations_, from shard on.
RECURSIVE GetStateFrom(_, _, _)
GetStateFrom(migration, shard, min_state) ==
  IF shard \notin Shards THEN min_state
  ELSE GetStateFrom(migration, shard + 1,
                    IF migration.slot_migrations_[shard].started
                    THEN MinState(min_state,
                                  FlowState(migration.slot_migrations_[shard]))
                    ELSE min_state)

GetState(migration) == GetStateFrom(migration, 0, "C_STABLE_SYNC")

\* OutgoingMigration::StartFlow: the flow of the shard is created and started; its
\* streamer is to emit the keys the slice holds in the slots of the migration.
StartFlow(migration, shard, keys) ==
  [migration EXCEPT !.slot_migrations_[shard] =
     [started |-> TRUE, state_ |-> "C_FULL_SYNC",
      todo |-> {k \in keys : KeySlot(k) \in migration.slots_}]]

\* The journal entry of a write reaches the destination when the shard has a flow
\* and the slot of the key is in the migration set.
Forwarded(migration, k) ==
  /\ migration.created
  /\ migration.slot_migrations_[ShardOf(k)].started
  /\ KeySlot(k) \in migration.slots_

\* DeleteSlots: FlushSlots on every shard.
DeleteSlots(keys, slots) == [s \in Shards |-> {k \in keys[s] : KeySlot(k) \notin slots}]

\* The number of the next config object.
NextConfigId == 1 + Cardinality({id \in ConfigIds : configs[id].created})

\* A thread is inside the callback of a config change: its blocked commands were
\* cancelled, its config is not yet replaced.
InCallback(t) == \E c \in Conns : t \in conns[c].cancelled_on \ conns[c].assigned

\* The config a thread points to; before the first config, one that owns nothing.
ConfigOf(t) == IF tl_cluster_config[t] = 0 THEN NoConfig ELSE configs[tl_cluster_config[t]]

SlotSets == SUBSET Slots

\* The argument of DFLYCLUSTER CONFIG: a string that parses as JSON or not, whose
\* JSON describes a valid cluster config or not, and the slots a valid one gives
\* to this node.
ValidJsons == {[parsed |-> TRUE, valid |-> TRUE, owned |-> o] : o \in SlotSets}
Jsons == ValidJsons \cup {[parsed |-> FALSE, valid |-> FALSE, owned |-> {}],
                          [parsed |-> TRUE, valid |-> FALSE, owned |-> {}]}

\* A config object is made of every JSON, valid or not.
CreateFromConfigAny(json) == [created |-> TRUE, owned |-> json.owned, migrated |-> {}]

\* ClusterConfig::CreateFromConfig: nullptr for JSON that is no cluster config.
CreateFromConfig(json) ==
  IF json.valid THEN [created |-> TRUE, owned |-> json.owned, migrated |-> {}]
  ELSE NoConfig

\* DflyClusterConfig without its error returns: every argument goes on to the lock.
DflyClusterConfigCreateUnchecked(c, json) ==
  /\ conns[c].pc = "idle"
  /\ NextConfigId \in ConfigIds
  /\ configs' = [configs EXCEPT ![NextConfigId] = CreateFromConfigAny(json)]
  /\ conns' = [conns EXCEPT ![c] = [NoFrame EXCEPT !.pc = "created",
                                                  !.new_config = NextConfigId]]
  /\ UNCHANGED <<tl_cluster_config, is_migration_finalization, set_config_mu, blocked,
                 cancelled, outgoing_migration_jobs_, shard_keys, dest_keys, observed,
                 shard_log, slice_vars>>

\* DflyClusterConfig, up to the lock: the JSON is parsed into a new config object;
\* the call returns with an error when there is no JSON or no config.
DflyClusterConfigCreate(c, json) ==
  /\ conns[c].pc = "idle"
  /\ IF ~json.parsed
     THEN /\ conns' = [conns EXCEPT ![c] =
                         [NoFrame EXCEPT !.error = "Invalid JSON cluster config"]]
          /\ UNCHANGED configs
     ELSE IF ~CreateFromConfig(json).created
     THEN /\ conns' = [conns EXCEPT ![c] =
                         [NoFrame EXCEPT !.error = "Invalid cluster configuration."]]
          /\ UNCHANGED configs
     ELSE /\ NextConfigId \in ConfigIds
          /\ configs' = [configs EXCEPT ![NextConfigId] = CreateFromConfig(json)]
          /\ conns' = [conns EXCEPT ![c] = [NoFrame EXCEPT !.pc = "created",
                                                          !.new_config = NextConfigId]]
  /\ UNCHANGED <<tl_cluster_config, is_migration_finalization, set_config_mu, blocked,
                 cancelled, outgoing_migration_jobs_, shard_keys, dest_keys, observed,
                 shard_log, slice_vars>>

\* lock_guard gu(set_config_mu).
DflyClusterConfigLock(c) ==
  /\ conns[c].pc = "created"
  /\ lock_guard(set_config_mu)
  /\ set_config_mu' = c
  /\ conns' = [conns EXCEPT ![c].pc = "locked"]
  /\ observed' = [observed EXCEPT !.locked = conns[c].new_config]
  /\ UNCHANGED <<tl_cluster_config, configs, is_migration_finalization, blocked,
                 cancelled, outgoing_migration_jobs_, shard_keys, dest_keys, shard_log, slice_vars>>

\* The slots the new config of c takes away from the config its thread points to.
DeletedBy(c) ==
  GetDeletedSlots(FALSE, GetOwnedSlots(ConfigOf(ThreadOf(c))),
                  GetOwnedSlots(configs[conns[c].new_config]))

\* The new config of c completes the outgoing migration.
Finalizes(c) ==
  /\ outgoing_migration_jobs_.created
  /\ DeletedBy(c) # {}
  /\ ContainsAllSlots(DeletedBy(c), outgoing_migration_jobs_.slots_)

\* The finalization of an outgoing migration, and the slots owned before.  The
\* callback moves deleted_slots on every thread: after the first thread the set is
\* in a moved-from state, so the config ends with the slots or with none.
DflyClusterConfigFinalize(c) ==
  /\ conns[c].pc = "locked"
  /\ IF Finalizes(c)
     THEN /\ is_migration_finalization' = [t \in Threads |-> TRUE]
          /\ \E migrated \in {DeletedBy(c), {}} :
               configs' = [id \in ConfigIds |->
                             IF \E t \in Threads : tl_cluster_config[t] = id
                             THEN [configs[id] EXCEPT !.migrated = migrated]
                             ELSE configs[id]]
     ELSE UNCHANGED <<is_migration_finalization, configs>>
  /\ conns' = [conns EXCEPT ![c].pc = "publishing",
                            ![c].is_first_config = tl_cluster_config[ThreadOf(c)] = 0,
                            ![c].before = GetOwnedSlots(ConfigOf(ThreadOf(c)))]
  /\ UNCHANGED <<tl_cluster_config, set_config_mu, blocked, cancelled,
                 outgoing_migration_jobs_, shard_keys, dest_keys, observed, shard_log, slice_vars>>

\* The callback on thread t, first half: CancelBlockingOnThread(blocking_filter).
CancelBlockingOnThread(c, t) ==
  /\ conns[c].pc = "publishing"
  /\ t \notin conns[c].cancelled_on
  /\ ~InCallback(t)
  /\ blocked' = [blocked EXCEPT ![t] =
       {cmd \in @ : blocking_filter(configs[conns[c].new_config], cmd) = "OK"}]
  /\ cancelled' = [cancelled EXCEPT ![t] =
       {[keys |-> cmd,
         status |-> blocking_filter(configs[conns[c].new_config], cmd)] :
          cmd \in {b \in blocked[t] :
                     blocking_filter(configs[conns[c].new_config], b) # "OK"}}]
  /\ conns' = [conns EXCEPT ![c].cancelled_on = @ \cup {t}]
  /\ UNCHANGED <<tl_cluster_config, configs, is_migration_finalization, set_config_mu,
                 outgoing_migration_jobs_, shard_keys, dest_keys, observed, shard_log, slice_vars>>

\* The callback on thread t, second half: tl_cluster_config = new_config.
ReplaceOnThread(c, t) ==
  /\ conns[c].pc = "publishing"
  /\ t \in conns[c].cancelled_on \ conns[c].assigned
  /\ tl_cluster_config' = [tl_cluster_config EXCEPT ![t] = conns[c].new_config]
  /\ conns' = [conns EXCEPT ![c].assigned = @ \cup {t}]
  /\ UNCHANGED <<configs, is_migration_finalization, set_config_mu, blocked, cancelled,
                 outgoing_migration_jobs_, shard_keys, dest_keys, observed, shard_log, slice_vars>>

\* DeleteSlots calls FlushSlots(slots) on every shard, unless the set is empty.
FlushSlotsCalls(slots) == IF slots = {} THEN <<>> ELSE <<slots>>

\* A journal entry is written on shards without a journal too.
WriteFlushSlotsToJournalAll(has_journal_, slots) ==
  IF slots = {} THEN <<>>
  ELSE <<[op |-> "COMMAND", cmd |-> "DFLYCLUSTER", args |-> <<"FLUSHSLOTS", slots>>]>>

\* WriteFlushSlotsToJournal on one shard: nothing for an empty set or without a
\* journal, else one COMMAND entry DFLYCLUSTER FLUSHSLOTS with the slots.
WriteFlushSlotsToJournal(has_journal_, slots) ==
  IF slots = {} \/ ~has_journal_ THEN <<>>
  ELSE <<[op |-> "COMMAND", cmd |-> "DFLYCLUSTER", args |-> <<"FLUSHSLOTS", slots>>]>>

\* The slots a config change that ends on connection c deletes.
DeletedSlotsOf(c) ==
  GetDeletedSlots(conns[c].is_first_config, conns[c].before,
                  GetOwnedSlots(ConfigOf(ThreadOf(c))))

\* After AwaitFiberOnAll: a master deletes the slots it lost and journals the
\* flush; the lock is released.
DflyClusterConfigFinish(c) ==
  /\ conns[c].pc = "publishing"
  /\ conns[c].assigned = Threads
  /\ IF is_replica
     THEN /\ shard_keys' = shard_keys
          /\ shard_log' = [s \in Shards |->
                             [shard_log[s] EXCEPT !.flushed = <<>>, !.journal = <<>>]]
     ELSE /\ shard_keys' = DeleteSlots(shard_keys, DeletedSlotsOf(c))
          /\ shard_log' = [s \in Shards |->
               [shard_log[s] EXCEPT
                  !.flushed = FlushSlotsCalls(DeletedSlotsOf(c)),
                  !.journal = WriteFlushSlotsToJournal(shard_log[s].has_journal,
                                                       DeletedSlotsOf(c))]]
  /\ set_config_mu' = IF set_config_mu = c THEN 0 ELSE set_config_mu
  /\ conns' = [conns EXCEPT ![c] = NoFrame]
  /\ UNCHANGED <<tl_cluster_config, configs, is_migration_finalization, blocked,
                 cancelled, outgoing_migration_jobs_, dest_keys, observed, slice_vars>>

\* A command blocks on thread t, on keys the thread serves.
Block(t, keys) ==
  /\ ~InCallback(t)
  /\ keys \notin blocked[t]
  /\ Cardinality(blocked[t]) < MaxBlocked
  /\ \A k \in keys : IsMySlot(ConfigOf(t), KeySlot(k))
  /\ blocked' = [blocked EXCEPT ![t] = @ \cup {keys}]
  /\ UNCHANGED <<tl_cluster_config, configs, is_migration_finalization, set_config_mu,
                 conns, cancelled, outgoing_migration_jobs_, shard_keys, dest_keys,
                 observed, shard_log, slice_vars>>

\* DFLYMIGRATE CONF: the migration is registered with no flow started.
MigrationConf(slots) ==
  /\ ~outgoing_migration_jobs_.created
  /\ tl_cluster_config[0] # 0
  /\ \A id \in slots : IsMySlot(ConfigOf(0), id)
  /\ outgoing_migration_jobs_' = [NoMigration EXCEPT !.created = TRUE, !.slots_ = slots]
  /\ UNCHANGED <<tl_cluster_config, configs, is_migration_finalization, set_config_mu,
                 conns, blocked, cancelled, shard_keys, dest_keys, observed, shard_log, slice_vars>>

\* DFLYMIGRATE FLOW on the thread of the shard; the command may come again for a
\* shard whose flow was started.
DflyMigrateFlow(shard) ==
  /\ outgoing_migration_jobs_.created
  /\ outgoing_migration_jobs_' =
       StartFlow(outgoing_migration_jobs_, shard, shard_keys[shard])
  /\ UNCHANGED <<tl_cluster_config, configs, is_migration_finalization, set_config_mu,
                 conns, blocked, cancelled, shard_keys, dest_keys, observed, shard_log, slice_vars>>

\* The streamer of the shard emits one key of its snapshot, if the slice still
\* holds it.
SnapshotStep(shard, k) ==
  /\ outgoing_migration_jobs_.slot_migrations_[shard].started
  /\ k \in outgoing_migration_jobs_.slot_migrations_[shard].todo
  /\ outgoing_migration_jobs_' =
       [outgoing_migration_jobs_ EXCEPT !.slot_migrations_[shard].todo = @ \ {k}]
  /\ dest_keys' = dest_keys \cup ({k} \cap shard_keys[shard])
  /\ UNCHANGED <<tl_cluster_config, configs, is_migration_finalization, set_config_mu,
                 conns, blocked, cancelled, shard_keys, observed, shard_log, slice_vars>>

\* A client stores a key on the source.
SourceSet(k) ==
  /\ IsMySlot(ConfigOf(ShardOf(k)), KeySlot(k))
  /\ k \notin shard_keys[ShardOf(k)]
  /\ shard_keys' = [shard_keys EXCEPT ![ShardOf(k)] = @ \cup {k}]
  /\ dest_keys' = IF Forwarded(outgoing_migration_jobs_, k) THEN dest_keys \cup {k}
                  ELSE dest_keys
  /\ UNCHANGED <<tl_cluster_config, configs, is_migration_finalization, set_config_mu,
                 conns, blocked, cancelled, outgoing_migration_jobs_, observed,
                 shard_log, slice_vars>>

\* A client deletes a key on the source.
SourceDel(k) ==
  /\ IsMySlot(ConfigOf(ShardOf(k)), KeySlot(k))
  /\ k \in shard_keys[ShardOf(k)]
  /\ shard_keys' = [shard_keys EXCEPT ![ShardOf(k)] = @ \ {k}]
  /\ dest_keys' = IF Forwarded(outgoing_migration_jobs_, k) THEN dest_keys \ {k}
                  ELSE dest_keys
  /\ UNCHANGED <<tl_cluster_config, configs, is_migration_finalization, set_config_mu,
                 conns, blocked, cancelled, outgoing_migration_jobs_, observed,
                 shard_log, slice_vars>>

\* DFLYCLUSTER SLOT-MIGRATION-STATUS for the outgoing migration.
DflySlotMigrationStatus ==
  /\ outgoing_migration_jobs_.created
  /\ observed' = [observed EXCEPT !.state = GetState(outgoing_migration_jobs_)]
  /\ UNCHANGED <<tl_cluster_config, configs, is_migration_finalization, set_config_mu,
                 conns, blocked, cancelled, outgoing_migration_jobs_, shard_keys,
                 dest_keys, shard_log, slice_vars>>

\* The slice variables of a process whose slices are kept as key sets.
InitNoSlice ==
  /\ InitSlice
  /\ cluster_enabled = TRUE
  /\ memory_budget_ = Unlimited
  /\ caching_mode_ = FALSE
  /\ expire_allowed_ = TRUE
  /\ is_replica = FALSE
  /\ has_journal = TRUE
  /\ loading = FALSE
  /\ dchecks = FALSE

(***************************************************************************)
(* One outgoing migration on a source that owns every slot: flows started  *)
(* shard by shard, snapshots emitted key by key, writes on the source, and *)
(* config changes that may take the migrated slots away.                   *)
(***************************************************************************)
InitMigration ==
  /\ InitNoSlice
  /\ tl_cluster_config = [t \in Threads |-> 1]
  /\ configs = [id \in ConfigIds |->
                  IF id = 1 THEN [created |-> TRUE, owned |-> Slots, migrated |-> {}]
                  ELSE NoConfig]
  /\ is_migration_finalization = [t \in Threads |-> FALSE]
  /\ set_config_mu = 0
  /\ conns = [c \in Conns |-> NoFrame]
  /\ blocked = [t \in Threads |-> {}]
  /\ cancelled = [t \in Threads |-> {}]
  /\ outgoing_migration_jobs_ = NoMigration
  /\ \E held \in SUBSET ClusterKeys :
       shard_keys = [s \in Shards |-> {k \in held : ShardOf(k) = s}]
  /\ dest_keys = {}
  /\ shard_log = [s \in Shards |-> NoShardLog]
  /\ observed = [NoObserved EXCEPT !.locked = 1]

NextMigration ==
  \/ \E slots \in SlotSets \ {{}} : MigrationConf(slots)
  \/ \E shard \in Shards : DflyMigrateFlow(shard)
  \/ \E shard \in Shards, k \in ClusterKeys : SnapshotStep(shard, k)
  \/ \E k \in ClusterKeys : SourceSet(k)
  \/ \E k \in ClusterKeys : SourceDel(k)
  \/ DflySlotMigrationStatus
  \/ \E json \in ValidJsons : DflyClusterConfigCreate(1, json)
  \/ DflyClusterConfigLock(1)
  \/ DflyClusterConfigFinalize(1)
  \/ \E t \in Threads : CancelBlockingOnThread(1, t)
  \/ \E t \in Threads : ReplaceOnThread(1, t)
  \/ DflyClusterConfigFinish(1)

SpecMigration == InitMigration /\ [][NextMigration]_vars

\* Every flow of the migration has been started and has emitted its snapshot.
AllFlowsStable ==
  \A s \in Shards :
    /\ outgoing_migration_jobs_.slot_migrations_[s].started
    /\ FlowState(outgoing_migration_jobs_.slot_migrations_[s]) = "C_STABLE_SYNC"

\* C26: the state SLOT-MIGRATION-STATUS reports for the outgoing migration is
\* C_STABLE_SYNC only when every flow of the migration has been started and its
\* streamer has finished the snapshot.
C26_StableOnlyWhenAllFlowsStable ==
  observed.state = "C_STABLE_SYNC" => AllFlowsStable

\* C27: a config change sets IsMigrationFinalization on a thread only when every
\* flow of the outgoing migration is at C_STABLE_SYNC.
C27_FinalizedOnlyWhenStable ==
  [][(\E t \in Threads : is_migration_finalization'[t] /\ ~is_migration_finalization[t])
       => AllFlowsStable]_vars

\* The keys of the slots of the migration.
MigratedKeys == {k \in ClusterKeys : KeySlot(k) \in outgoing_migration_jobs_.slots_}

\* C28: when a config change finalizes a migration whose state is C_STABLE_SYNC,
\* the destination holds, of the keys of the migrated slots, exactly those the
\* shards of the source hold at that moment.
C28_DestinationHoldsSourceKeys ==
  [][((\E t \in Threads : is_migration_finalization'[t] /\ ~is_migration_finalization[t])
        /\ GetState(outgoing_migration_jobs_) = "C_STABLE_SYNC")
       => dest_keys \cap MigratedKeys
            = (UNION {shard_keys[s] : s \in Shards}) \cap MigratedKeys]_vars

\* C33: the state of the flow of a shard only moves forward, from C_CONNECTING
\* before Start to C_FULL_SYNC and to C_STABLE_SYNC once the snapshot is finished:
\* whatever the calls of StartFlow and the progress of the streamers, the state
\* observed for a shard of a migration never goes back.
C33_FlowStateNeverGoesBack ==
  [][(outgoing_migration_jobs_.created /\ outgoing_migration_jobs_'.created)
       => \A s \in Shards :
            StateRank(FlowState(outgoing_migration_jobs_'.slot_migrations_[s]))
              >= StateRank(FlowState(outgoing_migration_jobs_.slot_migrations_[s]))]_vars

(***************************************************************************)
(* Config changes issued from two connections at once, on a process that   *)
(* starts without a config, with commands blocked on the threads.          *)
(***************************************************************************)
BlockedCmds == {{1}, {2}, {1, 2}}

InitConfig ==
  /\ InitNoSlice
  /\ InitClusterIdle

NextConfig ==
  \/ \E c \in Conns, json \in ValidJsons : DflyClusterConfigCreate(c, json)
  \/ \E c \in Conns : DflyClusterConfigLock(c)
  \/ \E c \in Conns : DflyClusterConfigFinalize(c)
  \/ \E c \in Conns, t \in Threads : CancelBlockingOnThread(c, t)
  \/ \E c \in Conns, t \in Threads : ReplaceOnThread(c, t)
  \/ \E c \in Conns : DflyClusterConfigFinish(c)
  \/ \E t \in Threads, keys \in BlockedCmds : Block(t, keys)

SpecConfig == InitConfig /\ [][NextConfig]_vars

\* C29: at most one DFLYCLUSTER CONFIG is between taking set_config_mu and
\* releasing it, and while none is, every thread points to the config object of
\* the last call that took the mutex.
C29_ConfigChangesSerialized ==
  /\ Cardinality({c \in Conns : conns[c].pc \in {"locked", "publishing"}}) <= 1
  /\ set_config_mu = 0 => \A t \in Threads : tl_cluster_config[t] = observed.locked

\* Both config objects were published, the one created first after the other, and
\* every thread points to it.
C29_Witness ==
  /\ set_config_mu = 0
  /\ \A c \in Conns : conns[c].pc = "idle"
  /\ configs[2].created
  /\ ~configs[3].created
  /\ observed.locked = 1
  /\ \A t \in Threads : tl_cluster_config[t] = 1

\* C30: when the config of a thread is replaced, no command is blocked on the thread
\* with a key the new config does not own; CancelBlockingOnThread has cancelled
\* those commands with KEY_MOVED and has left the other blocked commands blocked.
C30_MovedCancelledBeforeReplace ==
  [][\A t \in Threads :
       /\ tl_cluster_config'[t] # tl_cluster_config[t] =>
            \A cmd \in blocked[t] : \A k \in cmd :
              IsMySlot(configs[tl_cluster_config'[t]], KeySlot(k))
       /\ \A c \in Conns :
            t \in conns'[c].cancelled_on \ conns[c].cancelled_on =>
              /\ \A cmd \in blocked[t] :
                   IF \E k \in cmd :
                        ~IsMySlot(configs[conns[c].new_config], KeySlot(k))
                   THEN /\ cmd \notin blocked'[t]
                        /\ [keys |-> cmd, status |-> "KEY_MOVED"] \in cancelled'[t]
                   ELSE cmd \in blocked'[t]
              /\ \A x \in cancelled'[t] : x.keys \in blocked[t]]_vars

\* The config of a thread was replaced after one of its two blocked commands was
\* cancelled with KEY_MOVED and the other was kept.
C30_Witness ==
  \E t \in Threads, c \in Conns :
    /\ t \in conns[c].assigned
    /\ tl_cluster_config[t] = conns[c].new_config
    /\ \E x \in cancelled[t] : x.status = "KEY_MOVED"
    /\ blocked[t] # {}

(***************************************************************************)
(* DFLYCLUSTER CONFIG on one connection with every kind of argument, on a  *)
(* master or a replica whose shards have a journal or none, before and     *)
(* after the first config.                                                 *)
(***************************************************************************)
InitReconfig ==
  /\ InitSlice
  /\ cluster_enabled = TRUE
  /\ memory_budget_ = Unlimited
  /\ caching_mode_ = FALSE
  /\ expire_allowed_ = TRUE
  /\ is_replica \in BOOLEAN
  /\ has_journal = TRUE
  /\ loading = FALSE
  /\ dchecks = FALSE
  /\ \E owned \in SlotSets, first \in BOOLEAN :
       /\ tl_cluster_config = [t \in Threads |-> IF first THEN 0 ELSE 1]
       /\ configs = [id \in ConfigIds |->
                       IF id = 1 /\ ~first
                       THEN [created |-> TRUE, owned |-> owned, migrated |-> {}]
                       ELSE NoConfig]
  /\ is_migration_finalization = [t \in Threads |-> FALSE]
  /\ set_config_mu = 0
  /\ conns = [c \in Conns |-> NoFrame]
  /\ blocked = [t \in Threads |-> {}]
  /\ cancelled = [t \in Threads |-> {}]
  /\ outgoing_migration_jobs_ = NoMigration
  /\ \E held \in SUBSET ClusterKeys :
       shard_keys = [s \in Shards |-> {k \in held : ShardOf(k) = s}]
  /\ dest_keys = {}
  /\ \E journals \in SUBSET Shards :
       shard_log = [s \in Shards |-> [NoShardLog EXCEPT !.has_journal = s \in journals]]
  /\ observed = NoObserved

NextReconfig ==
  \/ \E json \in Jsons : DflyClusterConfigCreate(1, json)
  \/ DflyClusterConfigLock(1)
  \/ DflyClusterConfigFinalize(1)
  \/ \E t \in Threads : CancelBlockingOnThread(1, t)
  \/ \E t \in Threads : ReplaceOnThread(1, t)
  \/ DflyClusterConfigFinish(1)
  \/ \E slots \in SlotSets \ {{}} : MigrationConf(slots)
  \/ \E k \in ClusterKeys : SourceSet(k)

SpecReconfig == InitReconfig /\ [][NextReconfig]_vars

\* C31: a DFLYCLUSTER CONFIG call whose argument does not parse as JSON, or whose
\* JSON is no valid cluster config, replies with an error and changes nothing: no
\* thread's config is replaced, no config object is made, no key of a slot is
\* flushed, no journal entry is written, no migration is marked finalized, and the
\* lock is not taken.
C31_InvalidConfigChangesNothing ==
  [][\A c \in Conns : \A json \in Jsons \ ValidJsons :
       DflyClusterConfigCreate(c, json) =>
         /\ conns'[c].error # "none"
         /\ conns'[c].pc = "idle"
         /\ UNCHANGED <<tl_cluster_config, configs, is_migration_finalization,
                        set_config_mu, outgoing_migration_jobs_, shard_keys, shard_log>>]_vars

\* An invalid config was rejected on a node that has a config, keys and a migration.
C31_Witness ==
  /\ conns[1].error = "Invalid cluster configuration."
  /\ tl_cluster_config[0] # 0
  /\ outgoing_migration_jobs_.created
  /\ \E s \in Shards : shard_keys[s] # {}

\* The slots the claim names: owned when the change began and not owned after it,
\* and every slot not owned after it when the node had no config.
LostSlots(c) ==
  {id \in Slots : /\ conns[c].is_first_config \/ id \in conns[c].before
                  /\ id \notin configs[tl_cluster_config'[ThreadOf(c)]].owned}

FlushSlotsEntry(slots) ==
  [op |-> "COMMAND", cmd |-> "DFLYCLUSTER", args |-> <<"FLUSHSLOTS", slots>>]

\* C34: when a config change completes on a master that lost slots, FlushSlots is
\* called once on every shard with exactly the lost slots, and every shard with a
\* journal gets one COMMAND entry DFLYCLUSTER FLUSHSLOTS with exactly these slots,
\* a shard without a journal none; when no slot is lost, or the node is a replica,
\* nothing is flushed and nothing journaled.
C34_LostSlotsFlushedAndJournaled ==
  [][\A c \in Conns :
       (conns[c].pc = "publishing" /\ conns'[c].pc = "idle") =>
         \A s \in Shards :
           IF ~is_replica /\ LostSlots(c) # {}
           THEN /\ shard_log'[s].flushed = <<LostSlots(c)>>
                /\ shard_keys'[s] = {k \in shard_keys[s] : KeySlot(k) \notin LostSlots(c)}
                /\ shard_log'[s].journal =
                     IF shard_log[s].has_journal THEN <<FlushSlotsEntry(LostSlots(c))>>
                     ELSE <<>>
           ELSE /\ shard_log'[s].flushed = <<>>
                /\ shard_log'[s].journal = <<>>
                /\ shard_keys'[s] = shard_keys[s]]_vars

\* A master has just lost slots: one shard wrote the entry, the other has no
\* journal and wrote none, and both were flushed.
C34_Witness ==
  /\ ~is_replica
  /\ conns[1].pc = "idle"
  /\ \E s \in Shards : shard_log[s].has_journal /\ Len(shard_log[s].journal) = 1
  /\ \E s \in Shards : /\ ~shard_log[s].has_journal
                       /\ Len(shard_log[s].flushed) = 1
                       /\ shard_log[s].journal = <<>>

(***************************************************************************)
(* The heartbeat eviction step under every value of its flags, and the     *)
(* eviction policy called by the table, on a full segment whose keys are   *)
(* made sticky and locked.                                                 *)
(***************************************************************************)
MaxHbLimit == 2
HbLimits == 0..MaxHbLimit      \* values of max_eviction_per_heartbeat
HbGoals == 1..MaxHbLimit
HbStickyKeys == {1, 2}
HbLockKeys == {3, 4}

InitHeartbeat ==
  /\ prime = Preloaded(NumPreloaded).prime
  /\ expire = Preloaded(NumPreloaded).expire
  /\ expire_dup = [k \in Keys |-> NoExpire]
  /\ bucket_version = Preloaded(NumPreloaded).bucket_version
  /\ segments = Preloaded(NumPreloaded).segments
  /\ version_ = Preloaded(NumPreloaded).version_
  /\ slots_stats = Preloaded(NumPreloaded).slots_stats
  /\ obj_memory_usage = Preloaded(NumPreloaded).obj_memory_usage
  /\ memory_usage_by_type = Preloaded(NumPreloaded).memory_usage_by_type
  /\ watched_keys = [k \in Keys |-> {}]
  /\ watched_dirty = [conn \in WatchConns |-> FALSE]
  /\ deletion_count_ = 0
  /\ change_cb_ = <<>>
  /\ trans_locks = [k \in Keys |-> NoLock]
  /\ bumped_items_ = {}
  /\ now = 0
  /\ crashed = FALSE
  /\ notices = <<>>
  /\ updater = NoUpdater
  /\ touched = FALSE
  /\ flush = NoFlush
  /\ delivered = [b \in Buckets |-> {}]
  /\ retired = {}
  /\ events_ = NoEvents
  /\ journal = <<>>
  /\ last = NoLast
  /\ cluster_enabled = TRUE
  /\ memory_budget_ = 0
  /\ caching_mode_ \in BOOLEAN
  /\ expire_allowed_ \in BOOLEAN
  /\ is_replica = FALSE
  /\ has_journal \in BOOLEAN
  /\ InitClusterIdle
  /\ loading = FALSE
  /\ dchecks = FALSE

NextHeartbeat ==
  \/ \E k \in HbStickyKeys : OpSetSticky(k)
  \/ \E k \in HbLockKeys : OpAcquire("exclusive", k)
  \/ \E k \in HbLockKeys : OpRelease("exclusive", k)
  \/ \E start \in Keys, goal \in HbGoals, max_eviction_per_hb \in HbLimits,
        enable_heartbeat_eviction \in BOOLEAN :
       OpFreeMemWithEvictionStep(start, goal, max_eviction_per_hb,
                                 enable_heartbeat_eviction)
  \/ \E k \in Keys, can_evict \in BOOLEAN : \E victim \in LastSlotChoices(SliceOf, k) :
       OpEvict(k, victim, can_evict)

SpecHeartbeat == InitHeartbeat /\ [][NextHeartbeat]_vars

\* The keys a step removes from the PrimeTable.
Deleted == {k \in Keys : prime[k].present /\ ~prime'[k].present}

\* C36: one FreeMemWithEvictionStep deletes at most max_eviction_per_heartbeat
\* keys, for every value of the flag and 0 too, adds the number of deleted keys to
\* events_.evicted_keys, and journals exactly the deleted keys; it deletes nothing
\* when caching mode is off, expiration is not allowed or heartbeat eviction is
\* disabled.
C36_HeartbeatEvictionBounded ==
  [][\A start \in Keys, goal \in HbGoals, max_eviction_per_hb \in HbLimits,
        enable_heartbeat_eviction \in BOOLEAN :
       OpFreeMemWithEvictionStep(start, goal, max_eviction_per_hb,
                                 enable_heartbeat_eviction) =>
         /\ Cardinality(Deleted) <= max_eviction_per_hb
         /\ events_'.evicted_keys = Cardinality(Deleted)
         /\ has_journal =>
              /\ Len(journal') = Cardinality(Deleted)
              /\ {journal'[i].key : i \in 1..Len(journal')} = Deleted
         /\ (~caching_mode_ \/ ~expire_allowed_ \/ ~enable_heartbeat_eviction)
              => Deleted = {}]_vars

MaxWatchVersion == 5
NumWatchPreloaded == 2
WatchKeys == {1, 2}

InitWatch ==
  /\ prime = Preloaded(NumWatchPreloaded).prime
  /\ expire = Preloaded(NumWatchPreloaded).expire
  /\ expire_dup = [k \in Keys |-> NoExpire]
  /\ bucket_version = Preloaded(NumWatchPreloaded).bucket_version
  /\ segments = Preloaded(NumWatchPreloaded).segments
  /\ version_ = Preloaded(NumWatchPreloaded).version_
  /\ slots_stats = Preloaded(NumWatchPreloaded).slots_stats
  /\ obj_memory_usage = Preloaded(NumWatchPreloaded).obj_memory_usage
  /\ memory_usage_by_type = Preloaded(NumWatchPreloaded).memory_usage_by_type
  /\ watched_keys = [k \in Keys |-> {}]
  /\ watched_dirty = [conn \in WatchConns |-> FALSE]
  /\ deletion_count_ = 0
  /\ change_cb_ = <<>>
  /\ trans_locks = [k \in Keys |-> NoLock]
  /\ bumped_items_ = {}
  /\ now = 0
  /\ crashed = FALSE
  /\ notices = <<>>
  /\ updater = NoUpdater
  /\ touched = FALSE
  /\ flush = NoFlush
  /\ delivered = [b \in Buckets |-> {}]
  /\ retired = {}
  /\ events_ = NoEvents
  /\ journal = <<>>
  /\ last = NoLast
  /\ cluster_enabled = TRUE
  /\ memory_budget_ = Unlimited
  /\ caching_mode_ = FALSE
  /\ expire_allowed_ = TRUE
  /\ is_replica = FALSE
  /\ has_journal = TRUE
  /\ InitClusterIdle
  /\ loading = FALSE
  /\ dchecks = FALSE

WatchSlots == {{}, {1}}

NextWatch ==
  \/ Tick
  \/ \E k \in WatchKeys, conn \in WatchConns :
       updater = NoUpdater /\ conn <= k /\ OpRegisterWatchedKey(k, conn)
  \/ \E k \in WatchKeys : updater = NoUpdater /\ OpFindReadOnly(k)
  \/ updater = NoUpdater /\ version_ < MaxWatchVersion /\ OpFindMutable(1)
  \/ updater = NoUpdater /\ version_ < MaxWatchVersion /\ OpAddOrUpdate(2, 1, 1, 0)
  \/ OpRun
  \/ updater = NoUpdater /\ OpDel(1)
  \/ \E slot_ids \in WatchSlots : updater = NoUpdater /\ OpFlushSlots(slot_ids)
  \/ updater = NoUpdater /\ version_ < MaxWatchVersion /\ OpFlushSlotsFb
  \/ updater = NoUpdater /\ OpFlushSlotsFbResume

SpecWatch == InitWatch /\ [][NextWatch]_vars

\* C32: FlushSlots with an empty slot set is a no-op: the call and the fiber it
\* launches leave the PrimeTable, the ExpireTable, the statistics of the slots and
\* of the table, the events counters and the dirty flags of the watching
\* connections as they were.
C32_FlushOfNoSlotChangesNothing ==
  [][(\/ last'.op = "FlushSlots" /\ flush'.slot_ids = {}
      \/ last'.op = "FlushSlotsFb" /\ flush.slot_ids = {})
       => /\ UNCHANGED <<prime, expire, slots_stats, obj_memory_usage,
                         memory_usage_by_type, watched_dirty>>
          /\ events_' = NoEvents
          /\ ~crashed']_vars

\* The fiber of a flush of no slot has ended on a table that holds a watched key
\* whose watcher is not dirty.
C32_Witness ==
  /\ last.op = "FlushSlotsFb"
  /\ flush.slot_ids = {}
  /\ flush.pc = "done"
  /\ \E k \in Keys, conn \in WatchConns :
       prime[k].present /\ conn \in watched_keys[k] /\ ~watched_dirty[conn]

\* C39: when a watched key is modified through a mutable handle (the AutoUpdater
\* runs PostUpdate) or removed, every connection that watched it is dirty after the
\* step; and a PostUpdate marks no connection that did not watch its key.
C39_WatchersOfChangedKeysDirty ==
  [][/\ \A k \in Keys, conn \in WatchConns :
          (/\ conn \in watched_keys[k]
           /\ prime[k].present
           /\ ~crashed'
           /\ \/ ~prime'[k].present
              \/ last'.op = "Run" /\ last'.status = "PostUpdate" /\ last'.key = k)
            => watched_dirty'[conn]
     /\ \A conn \in WatchConns :
          (last'.op = "Run" /\ last'.status = "PostUpdate"
             /\ conn \notin watched_keys[last'.key])
            => watched_dirty'[conn] = watched_dirty[conn]]_vars
====
